---- MODULE Spec2Model ----
(***************************************************************************)
(* Chinese chess (Xiangqi): the Board data model, the Rules module, the    *)
(* GameEngine state machine and the StorageAdapter load path, as a state   *)
(* machine over the engine's fields.                                       *)
(*                                                                         *)
(* A piece is a record [type, side]; JavaScript null is the record Empty.  *)
(* A board is its grid, a function row -> col -> piece, 0-indexed as in    *)
(* the source.  An optional position ({row, col} or null) is a tuple       *)
(* <<row, col>> or the empty tuple.                                        *)
(***************************************************************************)
EXTENDS Integers, Sequences, FiniteSets, TLC

(* ----------------------------- configuration --------------------------- *)

rows ==
    10

cols ==
    9

(* The model commits at most MaxMoves moves between two resets of the      *)
(* engine (construction, newGame, a successful load).                      *)
MaxMoves ==
    2

(* The Board model makes at most MaxBoardCalls calls of setPiece and       *)
(* movePiece between two calls of setupInitial.                            *)
MaxBoardCalls ==
    2

(* At most MaxPendingImports file imports are being read at a time.        *)
MaxPendingImports ==
    1

(* A loop index that runs away from the board stops changing at the end of *)
(* the doubles' exact integers, 2^53 in the code, ScanLimit here: there     *)
(* `c += step` gives c again.                                              *)
ScanLimit ==
    11

RowIdx ==
    0 .. (rows - 1)

ColIdx ==
    0 .. (cols - 1)

Cells ==
    RowIdx \X ColIdx

(* All cells column by column, as `for c ... for r ...` would scan them.   *)
CellSeq_columnMajor ==
    [i \in 1 .. (rows * cols) |-> <<(i - 1) % rows, (i - 1) \div rows>>] \o << >>

(* All cells in the order of the nested `for r ... for c ...` scans.       *)
CellSeq ==
    [i \in 1 .. (rows * cols) |-> <<(i - 1) \div cols, (i - 1) % cols>>] \o << >>

(* ------------------------------- Piece ---------------------------------- *)

Empty ==
    [type |-> "none", side |-> "none"]

Piece(type, side) ==
    [type |-> type, side |-> side]

NoPos ==
    << >>

otherSide(side) ==
    IF side = "red" THEN "black" ELSE "red"

(* ------------------------------- Utils ---------------------------------- *)

inBounds(row, col) ==
    row >= 0 /\ row < rows /\ col >= 0 /\ col < cols

(* inPalace without the test of the column.                                *)
inPalace_anyColumn(row, col, side) ==
    IF side = "red"
    THEN row >= 7 /\ row <= 9
    ELSE row >= 0 /\ row <= 2

inPalace(row, col, side) ==
    IF col < 3 \/ col > 5
    THEN FALSE
    ELSE IF side = "red"
         THEN row >= 7 /\ row <= 9
         ELSE row >= 0 /\ row <= 2

sign(n) ==
    IF n = 0 THEN 0 ELSE IF n > 0 THEN 1 ELSE -1

abs(n) ==
    IF n < 0 THEN -n ELSE n

(* ------------------------------- Board ---------------------------------- *)

EmptyGrid ==
    [r \in RowIdx |-> [c \in ColIdx |-> Empty]]

getPiece(board, row, col) ==
    IF ~inBounds(row, col) THEN Empty ELSE board[row][col]

setPiece(board, row, col, piece) ==
    IF ~inBounds(row, col)
    THEN board
    ELSE [board EXCEPT ![row][col] = piece]

(* movePiece returns the captured piece and mutates the grid: the model    *)
(* returns both, [board |-> grid after, captured |-> piece or Empty].      *)
movePiece_keepOrigin(board, fromRow, fromCol, toRow, toCol) ==
    IF ~inBounds(fromRow, fromCol) \/ ~inBounds(toRow, toCol)
    THEN [board |-> board, captured |-> Empty]
    ELSE [board |-> setPiece(board, toRow, toCol, getPiece(board, fromRow, fromCol)),
          captured |-> getPiece(board, toRow, toCol)]

(* movePiece with the destination's bounds check left out.                 *)
movePiece_originCheckOnly(board, fromRow, fromCol, toRow, toCol) ==
    IF ~inBounds(fromRow, fromCol)
    THEN [board |-> board, captured |-> Empty]
    ELSE LET piece == getPiece(board, fromRow, fromCol)
             captured == getPiece(board, toRow, toCol)
             b1 == setPiece(board, toRow, toCol, piece)
             b2 == setPiece(b1, fromRow, fromCol, Empty)
         IN  [board |-> b2, captured |-> captured]

(* movePiece clearing the origin before it writes the destination.         *)
movePiece_clearsFirst(board, fromRow, fromCol, toRow, toCol) ==
    IF ~inBounds(fromRow, fromCol)
    THEN [board |-> board, captured |-> Empty]
    ELSE IF ~inBounds(toRow, toCol)
    THEN [board |-> board, captured |-> Empty]
    ELSE LET piece == getPiece(board, fromRow, fromCol)
             captured == getPiece(board, toRow, toCol)
             b1 == setPiece(board, fromRow, fromCol, Empty)
             b2 == setPiece(b1, toRow, toCol, piece)
         IN  [board |-> b2, captured |-> captured]

movePiece(board, fromRow, fromCol, toRow, toCol) ==
    IF ~inBounds(fromRow, fromCol)
    THEN [board |-> board, captured |-> Empty]
    ELSE IF ~inBounds(toRow, toCol)
    THEN [board |-> board, captured |-> Empty]
    ELSE LET piece == getPiece(board, fromRow, fromCol)
             captured == getPiece(board, toRow, toCol)
             b1 == setPiece(board, toRow, toCol, piece)
             b2 == setPiece(b1, fromRow, fromCol, Empty)
         IN  [board |-> b2, captured |-> captured]

clone(board) ==
    [r \in RowIdx |-> [c \in ColIdx |->
        IF board[r][c] # Empty
        THEN Piece(board[r][c].type, board[r][c].side)
        ELSE Empty]]

(* First General of `side` in row-major order, or NoPos.                   *)
getGeneralPosition(board, side) ==
    LET general == Piece("K", side)
        rs == {r \in RowIdx : \E c \in ColIdx : board[r][c] = general}
    IN  IF rs = {}
        THEN NoPos
        ELSE LET r == CHOOSE r \in rs : \A q \in rs : r <= q
                 cs == {c \in ColIdx : board[r][c] = general}
             IN  <<r, CHOOSE c \in cs : \A q \in cs : c <= q>>

BackRank ==
    <<"R", "H", "E", "A", "K", "A", "E", "H", "R">>

setupInitial ==
    [r \in RowIdx |-> [c \in ColIdx |->
        CASE r = 0 -> Piece(BackRank[c + 1], "black")
          [] r = 2 /\ c \in {1, 7} -> Piece("C", "black")
          [] r = 3 /\ c \in {0, 2, 4, 6, 8} -> Piece("S", "black")
          [] r = 9 -> Piece(BackRank[c + 1], "red")
          [] r = 7 /\ c \in {1, 7} -> Piece("C", "red")
          [] r = 6 /\ c \in {0, 2, 4, 6, 8} -> Piece("S", "red")
          [] OTHER -> Empty]]

(* --------------------------- Utils on boards ---------------------------- *)

RECURSIVE rowScan(_, _, _, _, _)
rowScan(board, row, c, toCol, step) ==
    IF c = toCol
    THEN 0
    ELSE (IF getPiece(board, row, c) # Empty THEN 1 ELSE 0)
         + rowScan(board, row, c + step, toCol, step)

RECURSIVE colScan(_, _, _, _, _)
colScan(board, col, r, toRow, step) ==
    IF r = toRow
    THEN 0
    ELSE (IF getPiece(board, r, col) # Empty THEN 1 ELSE 0)
         + colScan(board, col, r + step, toRow, step)

countPiecesBetween(board, fromRow, fromCol, toRow, toCol) ==
    IF fromRow = toRow
    THEN LET step == IF fromCol < toCol THEN 1 ELSE -1
         IN  rowScan(board, fromRow, fromCol + step, toCol, step)
    ELSE IF fromCol = toCol
    THEN LET step == IF fromRow < toRow THEN 1 ELSE -1
         IN  colScan(board, fromCol, fromRow + step, toRow, step)
    ELSE -1

pathClear(board, fromRow, fromCol, toRow, toCol) ==
    countPiecesBetween(board, fromRow, fromCol, toRow, toCol) = 0

(* ------------------------------- Rules ---------------------------------- *)

(* case 'H' of canBasicMove, with the leg cell never looked at.            *)
horseCase_noLegTest(board, fromRow, fromCol, dr, dc) ==
    (abs(dr) = 2 /\ abs(dc) = 1) \/ (abs(dr) = 1 /\ abs(dc) = 2)

(* case 'H' of canBasicMove.                                               *)
horseCase(board, fromRow, fromCol, dr, dc) ==
    LET adr == abs(dr)
        adc == abs(dc)
    IN  IF ~((adr = 2 /\ adc = 1) \/ (adr = 1 /\ adc = 2)) THEN FALSE
        ELSE IF adr = 2 /\ adc = 1
             THEN getPiece(board, fromRow + sign(dr), fromCol) = Empty
             ELSE getPiece(board, fromRow, fromCol + sign(dc)) = Empty

(* case 'C' of canBasicMove, capturing over one screen or more.            *)
cannonCase_anyScreens(board, target, fromRow, fromCol, toRow, toCol) ==
    IF ~(fromRow = toRow \/ fromCol = toCol) THEN FALSE
    ELSE LET between == countPiecesBetween(board, fromRow, fromCol, toRow, toCol)
         IN  IF target = Empty
             THEN between = 0
             ELSE between >= 1

(* case 'C' of canBasicMove.                                               *)
cannonCase(board, target, fromRow, fromCol, toRow, toCol) ==
    IF ~(fromRow = toRow \/ fromCol = toCol) THEN FALSE
    ELSE LET between == countPiecesBetween(board, fromRow, fromCol, toRow, toCol)
         IN  IF target = Empty
             THEN between = 0
             ELSE between = 1

(* case 'S' of canBasicMove, sideways allowed on either bank.              *)
soldierCase_sidewaysAnywhere(piece, fromRow, dr, dc) ==
    LET dir == IF piece.side = "red" THEN -1 ELSE 1
    IN  IF abs(dr) + abs(dc) # 1 THEN FALSE
        ELSE IF dr = dir /\ dc = 0 THEN TRUE
        ELSE IF dr = 0 /\ abs(dc) = 1 THEN TRUE
        ELSE FALSE

(* case 'S' of canBasicMove.                                               *)
soldierCase(piece, fromRow, dr, dc) ==
    LET dir == IF piece.side = "red" THEN -1 ELSE 1
        crossedRiver == IF piece.side = "red"
                        THEN fromRow <= 4
                        ELSE fromRow >= 5
    IN  IF abs(dr) + abs(dc) # 1 THEN FALSE
        ELSE IF dr = dir /\ dc = 0 THEN TRUE
        ELSE IF crossedRiver /\ dr = 0 /\ abs(dc) = 1 THEN TRUE
        ELSE FALSE

canBasicMove(board, piece, fromRow, fromCol, toRow, toCol) ==
    IF fromRow = toRow /\ fromCol = toCol THEN FALSE
    ELSE IF ~inBounds(toRow, toCol) THEN FALSE
    ELSE LET target == getPiece(board, toRow, toCol)
             dr == toRow - fromRow
             dc == toCol - fromCol
             adr == abs(dr)
             adc == abs(dc)
         IN
         IF target # Empty /\ target.side = piece.side THEN FALSE
         ELSE CASE piece.type = "K" ->
                     IF ~inPalace(toRow, toCol, piece.side) THEN FALSE
                     ELSE adr + adc = 1
                [] piece.type = "A" ->
                     IF ~inPalace(toRow, toCol, piece.side) THEN FALSE
                     ELSE adr = 1 /\ adc = 1
                [] piece.type = "E" ->
                     IF ~(adr = 2 /\ adc = 2) THEN FALSE
                     ELSE IF getPiece(board, fromRow + sign(dr), fromCol + sign(dc)) # Empty
                          THEN FALSE
                     ELSE IF piece.side = "red" /\ toRow <= 4 THEN FALSE
                     ELSE IF piece.side = "black" /\ toRow >= 5 THEN FALSE
                     ELSE TRUE
                [] piece.type = "H" ->
                     horseCase(board, fromRow, fromCol, dr, dc)
                [] piece.type = "R" ->
                     IF ~(fromRow = toRow \/ fromCol = toCol) THEN FALSE
                     ELSE pathClear(board, fromRow, fromCol, toRow, toCol)
                [] piece.type = "C" ->
                     cannonCase(board, target, fromRow, fromCol, toRow, toCol)
                [] piece.type = "S" ->
                     soldierCase(piece, fromRow, dr, dc)
                [] OTHER -> FALSE

isFacingGeneral_sameRow(board) ==
    LET redK == getGeneralPosition(board, "red")
        blackK == getGeneralPosition(board, "black")
    IN  IF redK = NoPos \/ blackK = NoPos THEN FALSE
        ELSE IF redK[1] # blackK[1] THEN FALSE
        ELSE countPiecesBetween(board, redK[1], redK[2], blackK[1], blackK[2]) = 0

isFacingGeneral(board) ==
    LET redK == getGeneralPosition(board, "red")
        blackK == getGeneralPosition(board, "black")
    IN  IF redK = NoPos \/ blackK = NoPos THEN FALSE
        ELSE IF redK[2] # blackK[2] THEN FALSE
        ELSE countPiecesBetween(board, redK[1], redK[2], blackK[1], blackK[2]) = 0

canPieceAttackSquare(board, piece, fromRow, fromCol, toRow, toCol) ==
    canBasicMove(board, piece, fromRow, fromCol, toRow, toCol)

isInCheck_ownSide(board, side) ==
    LET kingPos == getGeneralPosition(board, side)
    IN  IF kingPos = NoPos THEN FALSE
        ELSE \E r \in RowIdx : \E c \in ColIdx :
                /\ board[r][c] # Empty
                /\ board[r][c].side = side
                /\ canPieceAttackSquare(board, board[r][c], r, c, kingPos[1], kingPos[2])

isInCheck(board, side) ==
    LET kingPos == getGeneralPosition(board, side)
    IN  IF kingPos = NoPos THEN FALSE
        ELSE \E r \in RowIdx : \E c \in ColIdx :
                /\ board[r][c] # Empty
                /\ board[r][c].side # side
                /\ canPieceAttackSquare(board, board[r][c], r, c, kingPos[1], kingPos[2])

(* `const nb = board.clone(); nb.movePiece(...)`: the Board objects after   *)
(* the two statements.  Object 1 is the caller's board, object 2 the Board *)
(* that clone() made, with rows and Pieces of its own; nb names the        *)
(* object that is moved on.                                                *)
simulateMove_onBoard(board, fromRow, fromCol, toRow, toCol) ==
    LET objects == <<board, clone(board)>>
        nb == 1
    IN  [objects |-> [objects EXCEPT ![nb] =
                         movePiece(objects[nb], fromRow, fromCol, toRow, toCol).board],
         nb |-> nb]

simulateMove(board, fromRow, fromCol, toRow, toCol) ==
    LET objects == <<board, clone(board)>>
        nb == 2
    IN  [objects |-> [objects EXCEPT ![nb] =
                         movePiece(objects[nb], fromRow, fromCol, toRow, toCol).board],
         nb |-> nb]

isLegalMove_noFacingTest(board, fromRow, fromCol, toRow, toCol, side) ==
    LET piece == getPiece(board, fromRow, fromCol)
    IN  IF piece = Empty \/ piece.side # side THEN FALSE
        ELSE IF ~canBasicMove(board, piece, fromRow, fromCol, toRow, toCol) THEN FALSE
        ELSE LET sim == simulateMove(board, fromRow, fromCol, toRow, toCol)
                 nb == sim.objects[sim.nb]
             IN  ~isInCheck(nb, side)

isLegalMove_noCheckTest(board, fromRow, fromCol, toRow, toCol, side) ==
    LET piece == getPiece(board, fromRow, fromCol)
    IN  IF piece = Empty \/ piece.side # side THEN FALSE
        ELSE IF ~canBasicMove(board, piece, fromRow, fromCol, toRow, toCol) THEN FALSE
        ELSE LET sim == simulateMove(board, fromRow, fromCol, toRow, toCol)
                 nb == sim.objects[sim.nb]
             IN  ~isFacingGeneral(nb)

(* isLegalMove testing for facing Generals on the board before the move.   *)
isLegalMove_facingOnLiveBoard(board, fromRow, fromCol, toRow, toCol, side) ==
    LET piece == getPiece(board, fromRow, fromCol)
    IN  IF piece = Empty \/ piece.side # side THEN FALSE
        ELSE IF ~canBasicMove(board, piece, fromRow, fromCol, toRow, toCol) THEN FALSE
        ELSE LET sim == simulateMove(board, fromRow, fromCol, toRow, toCol)
                 nb == sim.objects[sim.nb]
             IN  IF isFacingGeneral(board) THEN FALSE
                 ELSE IF isInCheck(nb, side) THEN FALSE
                 ELSE TRUE

(* isLegalMove testing for check on the board before the move.             *)
isLegalMove_checksLiveBoard(board, fromRow, fromCol, toRow, toCol, side) ==
    LET piece == getPiece(board, fromRow, fromCol)
    IN  IF piece = Empty \/ piece.side # side THEN FALSE
        ELSE IF ~canBasicMove(board, piece, fromRow, fromCol, toRow, toCol) THEN FALSE
        ELSE LET sim == simulateMove(board, fromRow, fromCol, toRow, toCol)
                 nb == sim.objects[sim.nb]
             IN  IF isFacingGeneral(nb) THEN FALSE
                 ELSE IF isInCheck(board, side) THEN FALSE
                 ELSE TRUE

isLegalMove(board, fromRow, fromCol, toRow, toCol, side) ==
    LET piece == getPiece(board, fromRow, fromCol)
    IN  IF piece = Empty \/ piece.side # side THEN FALSE
        ELSE IF ~canBasicMove(board, piece, fromRow, fromCol, toRow, toCol) THEN FALSE
        ELSE LET sim == simulateMove(board, fromRow, fromCol, toRow, toCol)
                 nb == sim.objects[sim.nb]
             IN  IF isFacingGeneral(nb) THEN FALSE
                 ELSE IF isInCheck(nb, side) THEN FALSE
                 ELSE TRUE

(* The list of {row, col} destinations, as tuples, in scan order.          *)
getLegalMovesForPiece(board, row, col) ==
    LET piece == getPiece(board, row, col)
    IN  IF piece = Empty THEN << >>
        ELSE LET ok(rc) == isLegalMove(board, row, col, rc[1], rc[2], piece.side)
             IN  SelectSeq(CellSeq, ok)

(* The origins the outer loops visit without `continue`, in scan order.   *)
piecesOf(board, side) ==
    LET mine(rc) == getPiece(board, rc[1], rc[2]) # Empty
                    /\ getPiece(board, rc[1], rc[2]).side = side
    IN  SelectSeq(CellSeq, mine)

RECURSIVE movesFrom(_, _, _)
movesFrom(board, origins, i) ==
    IF i > Len(origins)
    THEN << >>
    ELSE LET moves == getLegalMovesForPiece(board, origins[i][1], origins[i][2])
         IN  [k \in 1 .. Len(moves) |-> [from |-> origins[i], to |-> moves[k]]]
             \o movesFrom(board, origins, i + 1)

generateLegalMoves(board, side) ==
    movesFrom(board, piecesOf(board, side), 1)

isCheckmate_noCheckTest(board, side) ==
    Len(generateLegalMoves(board, side)) = 0

isCheckmate(board, side) ==
    IF ~isInCheck(board, side) THEN FALSE
    ELSE Len(generateLegalMoves(board, side)) = 0

isStalemate(board, side) ==
    IF isInCheck(board, side) THEN FALSE
    ELSE Len(generateLegalMoves(board, side)) = 0

(* What the queries leave behind in the Board they were given.  The only   *)
(* write in them is the movePiece of isLegalMove; the loops hand the       *)
(* board from one call to the next (`left` is compared with the board it   *)
(* came from so that each call is evaluated before the next one starts).   *)
boardLeftByIsLegalMove(board, fromRow, fromCol, toRow, toCol, side) ==
    LET piece == getPiece(board, fromRow, fromCol)
    IN  IF piece = Empty \/ piece.side # side THEN board
        ELSE IF ~canBasicMove(board, piece, fromRow, fromCol, toRow, toCol) THEN board
        ELSE simulateMove(board, fromRow, fromCol, toRow, toCol).objects[1]

RECURSIVE destinationCols(_, _, _, _, _, _)
destinationCols(board, row, col, side, r, c) ==
    IF c = cols
    THEN board
    ELSE LET left == boardLeftByIsLegalMove(board, row, col, r, c, side)
         IN  IF left = board
             THEN destinationCols(board, row, col, side, r, c + 1)
             ELSE destinationCols(left, row, col, side, r, c + 1)

RECURSIVE destinationRows(_, _, _, _, _)
destinationRows(board, row, col, side, r) ==
    IF r = rows
    THEN board
    ELSE LET left == destinationCols(board, row, col, side, r, 0)
         IN  IF left = board
             THEN destinationRows(board, row, col, side, r + 1)
             ELSE destinationRows(left, row, col, side, r + 1)

boardLeftByGetLegalMovesForPiece(board, row, col) ==
    LET piece == getPiece(board, row, col)
    IN  IF piece = Empty THEN board
        ELSE destinationRows(board, row, col, piece.side, 0)

RECURSIVE originCols(_, _, _, _)
originCols(board, side, r, c) ==
    IF c = cols
    THEN board
    ELSE LET p == getPiece(board, r, c)
         IN  IF p = Empty \/ p.side # side
             THEN originCols(board, side, r, c + 1)
             ELSE LET left == boardLeftByGetLegalMovesForPiece(board, r, c)
                  IN  IF left = board
                      THEN originCols(board, side, r, c + 1)
                      ELSE originCols(left, side, r, c + 1)

RECURSIVE originRows(_, _, _)
originRows(board, side, r) ==
    IF r = rows
    THEN board
    ELSE LET left == originCols(board, side, r, 0)
         IN  IF left = board
             THEN originRows(board, side, r + 1)
             ELSE originRows(left, side, r + 1)

boardLeftByGenerateLegalMoves(board, side) ==
    originRows(board, side, 0)

boardLeftByIsCheckmate(board, side) ==
    IF ~isInCheck(board, side) THEN board
    ELSE boardLeftByGenerateLegalMoves(board, side)

boardLeftByIsStalemate(board, side) ==
    IF isInCheck(board, side) THEN board
    ELSE boardLeftByGenerateLegalMoves(board, side)

(* ----------------------------- GameEngine ------------------------------- *)

VARIABLES
    board,          \* engine.board.grid
    sideToMove,     \* engine.sideToMove
    selected,       \* engine.selected: <<row, col>> or NoPos
    history,        \* engine.history: sequence of [before, after, side]
    redoStack,      \* engine.redoStack: same shape
    gameOver,       \* engine.gameOver
    gameOverReason, \* engine.gameOverReason
    refs,           \* which Board object each board above is (see refList)
    lastChange,     \* the last call that changed the engine, by the branch it took
    moveCount,      \* moves committed since the engine was last reset
    legalCache,     \* main.js legalCache: [key, isArray, moves]
    rendered,       \* the legal-move list of the last Renderer.renderAll call
    pendingImports, \* file imports started and not yet completed
    scan            \* a call of Utils.countPiecesBetween, statement by statement

vars ==
    <<board, sideToMove, selected, history, redoStack, gameOver, gameOverReason,
      refs, lastChange, moveCount, legalCache, rendered, pendingImports, scan>>

uiVars ==
    <<legalCache, rendered, pendingImports>>

engineVars ==
    <<board, sideToMove, selected, history, redoStack, gameOver, gameOverReason,
      refs>>

(* The engine object as one value.                                         *)
Engine ==
    [board |-> board, sideToMove |-> sideToMove, selected |-> selected,
     history |-> history, redoStack |-> redoStack, gameOver |-> gameOver,
     gameOverReason |-> gameOverReason, refs |-> refs]

(* Object identity.  engine.board and the before/after of every history    *)
(* and redoStack entry are references to Board objects.  refs gives each   *)
(* of them a number, two references being the same object exactly when     *)
(* their numbers are equal: [board |-> n, history |-> <<[before |-> n,     *)
(* after |-> n], ...>>, redoStack |-> the same].  Only the pattern of       *)
(* equal numbers means anything, so the numbers are kept in order of first *)
(* appearance (sameObjects).                                               *)
refList(r) ==
    LET h == r.history
        d == r.redoStack
        pick(entries, i) == IF i % 2 = 1 THEN entries[(i + 1) \div 2].before
                            ELSE entries[i \div 2].after
    IN  [i \in 1 .. (2 * Len(h) + 2 * Len(d) + 1) |->
            IF i <= 2 * Len(h) THEN pick(h, i)
            ELSE IF i <= 2 * Len(h) + 2 * Len(d) THEN pick(d, i - 2 * Len(h))
            ELSE r.board]

(* A number no object of r has: what `new Board(...)` returns.             *)
freshRef(r) ==
    LET used == {refList(r)[i] : i \in DOMAIN refList(r)}
    IN  1 + (CHOOSE m \in used : \A n \in used : n <= m)

(* The same objects, numbered in order of first appearance in refList.     *)
sameObjects(r) ==
    LET L == refList(r)
        first(x) == CHOOSE i \in DOMAIN L :
                        L[i] = x /\ \A k \in 1 .. (i - 1) : L[k] # x
        rank(x) == Cardinality({L[k] : k \in 1 .. first(x)})
        ranked(entries) ==
            [i \in 1 .. Len(entries) |->
                [before |-> rank(entries[i].before), after |-> rank(entries[i].after)]]
    IN  [board |-> rank(r.board), history |-> ranked(r.history),
         redoStack |-> ranked(r.redoStack)]

(* The stored entries as read after the object `ref` was written in place  *)
(* and now holds `grid`: an entry that refers to that object shows it.     *)
readAfterWrite(entries, entryRefs, ref, grid) ==
    [i \in 1 .. Len(entries) |->
        [entries[i] EXCEPT
            !.before = IF entryRefs[i].before = ref THEN grid ELSE @,
            !.after = IF entryRefs[i].after = ref THEN grid ELSE @]]

(* newGame: setupInitial() rewrites the live Board object in place; the    *)
(* history and redoStack arrays are replaced by empty ones.                *)
refsOfNewGame(r) ==
    sameObjects([board |-> r.board, history |-> << >>, redoStack |-> << >>])

(* The commit: `before` and `after` are fresh clones, the live Board       *)
(* object stays, the redoStack is replaced by an empty array.              *)
refsOfMove(r) ==
    sameObjects([board |-> r.board,
                 history |-> Append(r.history, [before |-> freshRef(r),
                                                after |-> freshRef(r) + 1]),
                 redoStack |-> << >>])

(* undo: the popped entry's boards go to the redoStack as they are, the    *)
(* live board becomes a fresh clone.                                       *)
refsOfUndo(r) ==
    sameObjects([board |-> freshRef(r),
                 history |-> SubSeq(r.history, 1, Len(r.history) - 1),
                 redoStack |-> Append(r.redoStack, r.history[Len(r.history)])])

(* redo: the entry is popped, the live board becomes a fresh clone.        *)
refsOfRedo(r) ==
    sameObjects([board |-> freshRef(r),
                 history |-> r.history,
                 redoStack |-> SubSeq(r.redoStack, 1, Len(r.redoStack) - 1)])

(* applyToEngine: the live board becomes a new Board, both arrays empty.   *)
refsOfLoad(r) ==
    sameObjects([board |-> freshRef(r), history |-> << >>, redoStack |-> << >>])

(* The game-over texts of selectSquare (the source's are Chinese):         *)
(* "<loser> is checkmated, <winner> wins!" and "stalemate, no legal move". *)
checkmateReason(enemy) ==
    IF enemy = "red"
    THEN "red is checkmated, black wins!"
    ELSE "black is checkmated, red wins!"

stalemateReason ==
    "stalemate for both sides, no legal move."

newGame_keepGameOver(e) ==
    [e EXCEPT !.board = setupInitial,
              !.sideToMove = "red",
              !.selected = NoPos,
              !.history = << >>,
              !.redoStack = << >>,
              !.refs = refsOfNewGame(e.refs)]

newGame(e) ==
    [e EXCEPT !.board = setupInitial,
              !.sideToMove = "red",
              !.selected = NoPos,
              !.history = << >>,
              !.redoStack = << >>,
              !.gameOver = FALSE,
              !.gameOverReason = "",
              !.refs = refsOfNewGame(e.refs)]

(* selectSquare, first branch: the clicked square holds a piece of the     *)
(* side to move, which becomes the selection.                              *)
pickPiece_keepSelection(e, row, col) ==
    IF e.selected # NoPos
    THEN [engine |-> e, ret |-> FALSE]
    ELSE [engine |-> [e EXCEPT !.selected = <<row, col>>], ret |-> TRUE]

pickPiece(e, row, col) ==
    [engine |-> [e EXCEPT !.selected = <<row, col>>], ret |-> TRUE]

(* selectSquare, legal destination: move the piece, push the history       *)
(* entry, clear the redo stack, pass the turn, drop the selection.         *)
executeMove_keepRedo(e, row, col) ==
    LET before == clone(e.board)
        moved == movePiece(e.board, e.selected[1], e.selected[2], row, col).board
        after == clone(moved)
    IN  [e EXCEPT !.board = moved,
                  !.history = Append(e.history,
                      [before |-> before, after |-> after, side |-> e.sideToMove]),
                  !.sideToMove = otherSide(e.sideToMove),
                  !.selected = NoPos,
                  !.refs = sameObjects([board |-> e.refs.board,
                      history |-> Append(e.refs.history,
                          [before |-> freshRef(e.refs), after |-> freshRef(e.refs) + 1]),
                      redoStack |-> e.refs.redoStack])]

executeMove_lateSnapshot(e, row, col) ==
    LET moved == movePiece(e.board, e.selected[1], e.selected[2], row, col).board
        before == clone(moved)
        after == clone(moved)
    IN  [e EXCEPT !.board = moved,
                  !.history = Append(e.history,
                      [before |-> before, after |-> after, side |-> e.sideToMove]),
                  !.redoStack = << >>,
                  !.sideToMove = otherSide(e.sideToMove),
                  !.selected = NoPos,
                  !.refs = refsOfMove(e.refs)]

(* `before: this.board` in place of `before: this.board.clone()`.          *)
executeMove_storesLiveBoard(e, row, col) ==
    LET moved == movePiece(e.board, e.selected[1], e.selected[2], row, col).board
        after == clone(moved)
        stored == readAfterWrite(e.history, e.refs.history, e.refs.board, moved)
    IN  [e EXCEPT !.board = moved,
                  !.history = Append(stored,
                      [before |-> moved, after |-> after, side |-> e.sideToMove]),
                  !.redoStack = << >>,
                  !.sideToMove = otherSide(e.sideToMove),
                  !.selected = NoPos,
                  !.refs = sameObjects([board |-> e.refs.board,
                      history |-> Append(e.refs.history,
                          [before |-> e.refs.board, after |-> freshRef(e.refs)]),
                      redoStack |-> << >>])]

(* The commit without `this.selected = null`.                              *)
executeMove_keepSelection(e, row, col) ==
    LET before == clone(e.board)
        moved == movePiece(e.board, e.selected[1], e.selected[2], row, col).board
        after == clone(moved)
        stored == readAfterWrite(e.history, e.refs.history, e.refs.board, moved)
    IN  [e EXCEPT !.board = moved,
                  !.history = Append(stored,
                      [before |-> before, after |-> after, side |-> e.sideToMove]),
                  !.redoStack = << >>,
                  !.sideToMove = IF e.sideToMove = "red" THEN "black" ELSE "red",
                  !.refs = refsOfMove(e.refs)]

(* movePiece writes the live Board object in place, so whatever stored     *)
(* entry referred to that object would show the move as well.              *)
executeMove(e, row, col) ==
    LET before == clone(e.board)
        moved == movePiece(e.board, e.selected[1], e.selected[2], row, col).board
        after == clone(moved)
        stored == readAfterWrite(e.history, e.refs.history, e.refs.board, moved)
    IN  [e EXCEPT !.board = moved,
                  !.history = Append(stored,
                      [before |-> before, after |-> after, side |-> e.sideToMove]),
                  !.redoStack = << >>,
                  !.sideToMove = IF e.sideToMove = "red" THEN "black" ELSE "red",
                  !.selected = NoPos,
                  !.refs = refsOfMove(e.refs)]

(* selectSquare, after the move: is the side now to move mated or          *)
(* stalemated?  A check alone is only logged.                              *)
judgeOutcome_noStalemate(e) ==
    IF isCheckmate(e.board, e.sideToMove)
    THEN [e EXCEPT !.gameOver = TRUE,
                   !.gameOverReason = checkmateReason(e.sideToMove)]
    ELSE e

judgeOutcome(e) ==
    LET enemy == e.sideToMove
        inCheck == isInCheck(e.board, enemy)
        checkmate == isCheckmate(e.board, enemy)
        stalemate == isStalemate(e.board, enemy)
    IN  IF checkmate
        THEN [e EXCEPT !.gameOver = TRUE, !.gameOverReason = checkmateReason(enemy)]
        ELSE IF stalemate
        THEN [e EXCEPT !.gameOver = TRUE, !.gameOverReason = stalemateReason]
        ELSE e

(* selectSquare, illegal destination: logged, nothing changes.             *)
rejectMove_deselect(e) ==
    [engine |-> [e EXCEPT !.selected = NoPos], ret |-> FALSE]

rejectMove(e) ==
    [engine |-> e, ret |-> FALSE]

(* selectSquare(row, col): [engine |-> the engine after, ret |-> result].  *)
selectSquare_noGameOverGuard(e, row, col) ==
    LET clicked == getPiece(e.board, row, col)
    IN  IF clicked # Empty /\ clicked.side = e.sideToMove
        THEN pickPiece(e, row, col)
        ELSE IF e.selected # NoPos
        THEN IF isLegalMove(e.board, e.selected[1], e.selected[2], row, col,
                            e.sideToMove)
             THEN [engine |-> judgeOutcome(executeMove(e, row, col)), ret |-> TRUE]
             ELSE rejectMove(e)
        ELSE [engine |-> e, ret |-> FALSE]

selectSquare(e, row, col) ==
    IF e.gameOver
    THEN [engine |-> e, ret |-> FALSE]
    ELSE LET clicked == getPiece(e.board, row, col)
         IN  IF clicked # Empty /\ clicked.side = e.sideToMove
             THEN pickPiece(e, row, col)
             ELSE IF e.selected # NoPos
             THEN IF isLegalMove(e.board, e.selected[1], e.selected[2], row, col,
                                 e.sideToMove)
                  THEN [engine |-> judgeOutcome(executeMove(e, row, col)),
                        ret |-> TRUE]
                  ELSE rejectMove(e)
             ELSE [engine |-> e, ret |-> FALSE]

getLegalMovesOfSelection(e) ==
    IF e.selected = NoPos
    THEN << >>
    ELSE getLegalMovesForPiece(e.board, e.selected[1], e.selected[2])

undo_deselectsFirst(e) ==
    IF Len(e.history) = 0
    THEN [engine |-> [e EXCEPT !.selected = NoPos], ret |-> FALSE]
    ELSE LET last == e.history[Len(e.history)]
         IN  [engine |->
                 [e EXCEPT !.history = SubSeq(e.history, 1, Len(e.history) - 1),
                           !.redoStack = Append(e.redoStack,
                               [before |-> last.before, after |-> last.after,
                                side |-> last.side]),
                           !.board = clone(last.before),
                           !.sideToMove = last.side,
                           !.selected = NoPos,
                           !.gameOver = FALSE,
                           !.gameOverReason = "",
                           !.refs = refsOfUndo(e.refs)],
              ret |-> TRUE]

undo_keepGameOver(e) ==
    IF Len(e.history) = 0
    THEN [engine |-> e, ret |-> FALSE]
    ELSE LET last == e.history[Len(e.history)]
         IN  [engine |->
                 [e EXCEPT !.history = SubSeq(e.history, 1, Len(e.history) - 1),
                           !.redoStack = Append(e.redoStack,
                               [before |-> last.before, after |-> last.after,
                                side |-> last.side]),
                           !.board = clone(last.before),
                           !.sideToMove = last.side,
                           !.selected = NoPos,
                           !.refs = refsOfUndo(e.refs)],
              ret |-> TRUE]

undo(e) ==
    IF Len(e.history) = 0
    THEN [engine |-> e, ret |-> FALSE]
    ELSE LET last == e.history[Len(e.history)]
         IN  [engine |->
                 [e EXCEPT !.history = SubSeq(e.history, 1, Len(e.history) - 1),
                           !.redoStack = Append(e.redoStack,
                               [before |-> last.before, after |-> last.after,
                                side |-> last.side]),
                           !.board = clone(last.before),
                           !.sideToMove = last.side,
                           !.selected = NoPos,
                           !.gameOver = FALSE,
                           !.gameOverReason = "",
                           !.refs = refsOfUndo(e.refs)],
              ret |-> TRUE]

(* redo() without `this.selected = null`.                                  *)
redo_keepSelection(e) ==
    IF Len(e.redoStack) = 0
    THEN [engine |-> e, ret |-> FALSE]
    ELSE LET next == e.redoStack[Len(e.redoStack)]
         IN  [engine |->
                 [e EXCEPT !.redoStack = SubSeq(e.redoStack, 1, Len(e.redoStack) - 1),
                           !.board = clone(next.after),
                           !.sideToMove = IF next.side = "red" THEN "black" ELSE "red",
                           !.refs = refsOfRedo(e.refs)],
              ret |-> TRUE]

redo(e) ==
    IF Len(e.redoStack) = 0
    THEN [engine |-> e, ret |-> FALSE]
    ELSE LET next == e.redoStack[Len(e.redoStack)]
         IN  [engine |->
                 [e EXCEPT !.redoStack = SubSeq(e.redoStack, 1, Len(e.redoStack) - 1),
                           !.board = clone(next.after),
                           !.sideToMove = IF next.side = "red" THEN "black" ELSE "red",
                           !.selected = NoPos,
                           !.refs = refsOfRedo(e.refs)],
              ret |-> TRUE]

getStatus(e) ==
    LET enemy == e.sideToMove
    IN  [inCheck |-> isInCheck(e.board, enemy),
         checkmate |-> isCheckmate(e.board, enemy),
         stalemate |-> isStalemate(e.board, enemy),
         gameOver |-> e.gameOver,
         gameOverReason |-> e.gameOverReason]

(* The engine after getLegalMovesOfSelection() and after getStatus():      *)
(* neither assigns a field, both hand this.board to the rules.             *)
engineLeftByGetLegalMovesOfSelection(e) ==
    IF e.selected = NoPos
    THEN e
    ELSE [e EXCEPT !.board = boardLeftByGetLegalMovesForPiece(
                                 e.board, e.selected[1], e.selected[2])]

engineLeftByGetStatus(e) ==
    LET enemy == e.sideToMove
        b1 == boardLeftByIsCheckmate(e.board, enemy)
        b2 == boardLeftByIsStalemate(b1, enemy)
    IN  [e EXCEPT !.board = b2]

(* --------------------------- StorageAdapter ----------------------------- *)

(* A saved cell is {t, s} or null; a saved state is {sideToMove, grid}.    *)
(* A JavaScript array is a function on 0 .. length-1.  isNull: the parsed  *)
(* value is null; gridIsArray: Array.isArray(data.grid).                   *)
NullCell ==
    [t |-> "null", s |-> "null"]

serializeEngine_noSide(e) ==
    [isNull |-> FALSE,
     gridIsArray |-> TRUE,
     sideToMove |-> "undefined",
     grid |-> [r \in RowIdx |-> [c \in ColIdx |->
                 IF e.board[r][c] # Empty
                 THEN [t |-> e.board[r][c].type, s |-> e.board[r][c].side]
                 ELSE NullCell]]]

serializeEngine(e) ==
    [isNull |-> FALSE,
     gridIsArray |-> TRUE,
     sideToMove |-> e.sideToMove,
     grid |-> [r \in RowIdx |-> [c \in ColIdx |->
                 IF e.board[r][c] # Empty
                 THEN [t |-> e.board[r][c].type, s |-> e.board[r][c].side]
                 ELSE NullCell]]]

(* applyToEngine with the engine's fields reset before the grid is read:   *)
(* a throw in the loop then leaves a half-applied state behind.            *)
applyToEngine_resetsFirst(data, e) ==
    IF data.isNull \/ ~data.gridIsArray
    THEN [engine |-> e, ret |-> FALSE]
    ELSE IF \E r \in RowIdx : r \notin DOMAIN data.grid
    THEN [engine |-> [e EXCEPT !.selected = NoPos,
                               !.history = << >>,
                               !.redoStack = << >>,
                               !.gameOver = FALSE,
                               !.gameOverReason = "",
                               !.refs = [board |-> 1, history |-> << >>,
                                         redoStack |-> << >>]],
          ret |-> FALSE]
    ELSE LET cellAt(r, c) == IF c \in DOMAIN data.grid[r]
                             THEN data.grid[r][c]
                             ELSE NullCell
             b == [r \in RowIdx |-> [c \in ColIdx |->
                     IF cellAt(r, c) # NullCell
                     THEN Piece(cellAt(r, c).t, cellAt(r, c).s)
                     ELSE Empty]]
         IN  [engine |->
                 [e EXCEPT !.board = b,
                           !.sideToMove = IF data.sideToMove = "black"
                                          THEN "black" ELSE "red",
                           !.selected = NoPos,
                           !.history = << >>,
                           !.redoStack = << >>,
                           !.gameOver = FALSE,
                           !.gameOverReason = "",
                           !.refs = refsOfLoad(e.refs)],
              ret |-> TRUE]

(* applyToEngine(data, engine): reading data.grid[r][c] throws when row r  *)
(* is undefined, and reads undefined (falsy) when only cell c is; a throw  *)
(* is caught and reported as false before any field of the engine is set.  *)
applyToEngine(data, e) ==
    IF data.isNull \/ ~data.gridIsArray
    THEN [engine |-> e, ret |-> FALSE]
    ELSE IF \E r \in RowIdx : r \notin DOMAIN data.grid
    THEN [engine |-> e, ret |-> FALSE]
    ELSE LET cellAt(r, c) == IF c \in DOMAIN data.grid[r]
                             THEN data.grid[r][c]
                             ELSE NullCell
             b == [r \in RowIdx |-> [c \in ColIdx |->
                     IF cellAt(r, c) # NullCell
                     THEN Piece(cellAt(r, c).t, cellAt(r, c).s)
                     ELSE Empty]]
         IN  [engine |->
                 [e EXCEPT !.board = b,
                           !.sideToMove = IF data.sideToMove = "black"
                                          THEN "black" ELSE "red",
                           !.selected = NoPos,
                           !.history = << >>,
                           !.redoStack = << >>,
                           !.gameOver = FALSE,
                           !.gameOverReason = "",
                           !.refs = refsOfLoad(e.refs)],
              ret |-> TRUE]

(* The messages handed to logger.error / logger.info by the storage        *)
(* adapter (English stand-ins for the source's texts).                     *)
applyFailedMessage ==
    "applying the saved state failed"

loadedMessage ==
    "saved game read"

loadFailedMessage ==
    "reading local storage failed"

fileReadFailedMessage ==
    "reading the file failed"

importParseFailedMessage ==
    "parsing the import failed"

(* loadFromLocalStorage(engine): raw is what localStorage.getItem gave.    *)
(* isMissing: the item is null or the empty string; isJson: JSON.parse     *)
(* accepts it; data: the parsed value.  The result carries the returned    *)
(* boolean and the message of the last logger call.                        *)
loadFromLocalStorage(raw, e) ==
    IF raw.isMissing \/ ~raw.isJson
    THEN [engine |-> e, ret |-> FALSE, logged |-> loadFailedMessage]
    ELSE LET r == applyToEngine(raw.data, e)
         IN  [engine |-> r.engine, ret |-> r.ret,
              logged |-> IF r.ret THEN loadedMessage ELSE applyFailedMessage]

(* importFromFile(file, engine): the value the promise resolves to.        *)
(* isUnreadable: the FileReader fires onerror.                             *)
importFromFile(file, e) ==
    IF file.isUnreadable
    THEN [engine |-> e, ret |-> FALSE, logged |-> fileReadFailedMessage]
    ELSE IF ~file.isJson
    THEN [engine |-> e, ret |-> FALSE, logged |-> importParseFailedMessage]
    ELSE LET r == applyToEngine(file.data, e)
         IN  [engine |-> r.engine, ret |-> r.ret,
              logged |-> IF r.ret THEN loadedMessage ELSE applyFailedMessage]

(* ------------------- countPiecesBetween, step by step ------------------- *)

(* No call of countPiecesBetween is under way.                             *)
NoScan ==
    [pc |-> "idle", fromRow |-> 0, fromCol |-> 0, toRow |-> 0, toCol |-> 0,
     step |-> 0, i |-> 0, cnt |-> 0, result |-> 0]

(* `c += step` on doubles: exact up to the limit, where it gives c again.  *)
plusStep(i, step) ==
    IF i + step < -ScanLimit THEN -ScanLimit
    ELSE IF i + step > ScanLimit THEN ScanLimit
    ELSE i + step

(* The cells countPiecesBetween is called on.                              *)
ScanCells ==
    {<<0, 0>>, <<0, 8>>, <<0, 1>>, <<2, 1>>, <<2, 7>>, <<9, 1>>}

(* ------------------------------- main.js -------------------------------- *)

(* `{ key: null, moves: null }`: isArray is Array.isArray(moves).           *)
NoCache ==
    [key |-> "null", isArray |-> FALSE, moves |-> << >>]

(* The cache key of renderNow: `${sel.row},${sel.col}-${engine.sideToMove}` *)
(* or 'none'.                                                              *)
cacheKey(e) ==
    IF e.selected = NoPos
    THEN "none"
    ELSE ToString(e.selected[1]) \o "," \o ToString(e.selected[2]) \o "-"
             \o e.sideToMove

(* renderNow that never asks the engine.                                   *)
renderNow_cacheOnly(e, cache) ==
    LET key == cacheKey(e)
    IN  [legalCache |-> [key |-> key, isArray |-> TRUE, moves |-> cache.moves],
         legal |-> cache.moves]

(* renderNow(): the cache it leaves and the list it passes to              *)
(* Renderer.renderAll.                                                     *)
renderNow(e, cache) ==
    LET key == cacheKey(e)
    IN  IF cache.key = key /\ cache.isArray
        THEN [legalCache |-> cache, legal |-> cache.moves]
        ELSE LET legal == getLegalMovesOfSelection(e)
             IN  [legalCache |-> [key |-> key, isArray |-> TRUE, moves |-> legal],
                  legal |-> legal]

(* ------------------------------- inputs --------------------------------- *)

(* A grid holding the listed <<row, col, type, side>> placements.          *)
gridOf(placed) ==
    [r \in RowIdx |-> [c \in ColIdx |->
        IF \E q \in placed : q[1] = r /\ q[2] = c
        THEN LET q == CHOOSE q \in placed : q[1] = r /\ q[2] = c
             IN  Piece(q[3], q[4])
        ELSE Empty]]

savedGame(side, placed) ==
    serializeEngine([board |-> gridOf(placed), sideToMove |-> side])

(* Rook ending, Red to move: the Rook can mate on (5,3), stalemate on      *)
(* (1,5) and check on (0,5); the Red General may not step to column 3.     *)
RookEnding ==
    savedGame("red", {<<9, 4, "K", "red">>, <<5, 5, "R", "red">>,
                      <<0, 3, "K", "black">>})

(* Black to move: the Advisor on (1,3) is pinned by the Rook on (2,3),     *)
(* which can capture it once the Black General has stepped aside.          *)
PinnedAdvisor ==
    savedGame("black", {<<9, 5, "K", "red">>, <<2, 3, "R", "red">>,
                        <<0, 3, "K", "black">>, <<1, 3, "A", "black">>})

(* A saved state without a grid.                                           *)
NoGrid ==
    [isNull |-> FALSE, gridIsArray |-> FALSE, sideToMove |-> "red",
     grid |-> << >>]

SavedStates ==
    {RookEnding, PinnedAdvisor, NoGrid}

(* A saved state whose grid has only nine rows.                            *)
NineRows ==
    [RookEnding EXCEPT !.grid = [r \in 0 .. (rows - 2) |-> RookEnding.grid[r]]]

(* What localStorage may hold: nothing, text that is no JSON, the text of  *)
(* a saved state.                                                          *)
NoItem ==
    [isMissing |-> TRUE, isJson |-> FALSE, data |-> NoGrid]

NotJson ==
    [isMissing |-> FALSE, isJson |-> FALSE, data |-> NoGrid]

itemOf(data) ==
    [isMissing |-> FALSE, isJson |-> TRUE, data |-> data]

StoredItems ==
    {NoItem, NotJson, itemOf(NoGrid), itemOf(NineRows), itemOf(RookEnding)}

(* The files an import may be given: unreadable, no JSON, a saved state.   *)
fileOf(data) ==
    [isUnreadable |-> FALSE, isJson |-> TRUE, data |-> data]

ImportFiles ==
    {[isUnreadable |-> TRUE, isJson |-> FALSE, data |-> NoGrid],
     [isUnreadable |-> FALSE, isJson |-> FALSE, data |-> NoGrid],
     fileOf(NineRows), fileOf(PinnedAdvisor)}

(* The squares a click may name, and one square beyond each edge.          *)
ClickCells ==
    {<<0, 3>>, <<0, 4>>, <<0, 5>>, <<1, 3>>, <<1, 5>>, <<2, 3>>, <<2, 4>>,
     <<3, 4>>, <<4, 4>>, <<5, 3>>, <<5, 4>>, <<5, 5>>, <<6, 4>>,
     <<9, 3>>, <<9, 4>>, <<9, 5>>,
     <<-1, 4>>, <<rows, 4>>, <<4, -1>>, <<4, cols>>}

(* ------------------------------- actions -------------------------------- *)

(* The engine becomes e2 by a call of kind `kind`.                         *)
Becomes(e2, kind) ==
    /\ board' = e2.board
    /\ sideToMove' = e2.sideToMove
    /\ selected' = e2.selected
    /\ history' = e2.history
    /\ redoStack' = e2.redoStack
    /\ gameOver' = e2.gameOver
    /\ gameOverReason' = e2.gameOverReason
    /\ refs' = e2.refs
    /\ lastChange' = IF e2 = Engine THEN lastChange ELSE kind
    /\ UNCHANGED scan

(* The engine after `new GameEngine()`: the constructor ends in newGame(). *)
Init ==
    /\ board = setupInitial
    /\ sideToMove = "red"
    /\ selected = NoPos
    /\ history = << >>
    /\ redoStack = << >>
    /\ gameOver = FALSE
    /\ gameOverReason = ""
    /\ refs = [board |-> 1, history |-> << >>, redoStack |-> << >>]
    /\ lastChange = "newGame"
    /\ moveCount = 0
    /\ legalCache = [key |-> "none", isArray |-> TRUE, moves |-> << >>]
    /\ rendered = << >>
    /\ pendingImports = 0
    /\ scan = NoScan

(* A handler that resets legalCache and calls renderNow() on engine e2.    *)
Renders(e2) ==
    /\ \E drawn \in {renderNow(e2, NoCache)} :
          /\ legalCache' = drawn.legalCache
          /\ rendered' = drawn.legal
    /\ UNCHANGED pendingImports

SelectSquare(row, col) ==
    \E r \in {selectSquare(Engine, row, col)} :
    LET committed == Len(r.engine.history) > Len(history)
    IN  /\ committed => moveCount < MaxMoves
        /\ Becomes(r.engine, IF committed THEN "move"
                              ELSE IF selected # NoPos THEN "reselect"
                              ELSE "select")
        /\ moveCount' = IF committed THEN moveCount + 1 ELSE moveCount
        /\ Renders(r.engine)

NewGame ==
    \E e2 \in {newGame(Engine)} :
        /\ Becomes(e2, "newGame")
        /\ moveCount' = 0
        /\ Renders(e2)

Undo ==
    \E r \in {undo(Engine)} :
        /\ Becomes(r.engine, "undo")
        /\ UNCHANGED moveCount
        /\ Renders(r.engine)

Redo ==
    \E r \in {redo(Engine)} :
        /\ Becomes(r.engine, "redo")
        /\ UNCHANGED moveCount
        /\ Renders(r.engine)

(* getStatus() computes its answer and assigns no field.                   *)
GetStatus ==
    /\ getStatus(Engine).gameOver = gameOver
    /\ \E e2 \in {engineLeftByGetStatus(Engine)} : Becomes(e2, "getStatus")
    /\ UNCHANGED <<moveCount, uiVars>>

(* StorageAdapter.applyToEngine called on the live engine, no handler      *)
(* around it.                                                              *)
Load(data) ==
    \E r \in {applyToEngine(data, Engine)} :
        /\ Becomes(r.engine, "applyToEngine")
        /\ moveCount' = IF r.ret THEN 0 ELSE moveCount
        /\ UNCHANGED uiVars

(* The "load" button: loadFromLocalStorage(engine).                        *)
LoadFromLocalStorage(raw) ==
    \E r \in {loadFromLocalStorage(raw, Engine)} :
        /\ Becomes(r.engine, "applyToEngine")
        /\ moveCount' = IF r.ret THEN 0 ELSE moveCount
        /\ Renders(r.engine)

(* What the file input's handler does once the promise of importFromFile   *)
(* has settled: the reader's onload applies the file, and the handler's    *)
(* continuation, a microtask of the same task, renders when ok.            *)
importSettles(file) ==
    \E r \in {importFromFile(file, Engine)} :
        /\ Becomes(r.engine, "applyToEngine")
        /\ moveCount' = IF r.ret THEN 0 ELSE moveCount
        /\ IF r.ret
           THEN \E drawn \in {renderNow(r.engine, NoCache)} :
                   /\ legalCache' = drawn.legalCache
                   /\ rendered' = drawn.legal
           ELSE UNCHANGED <<legalCache, rendered>>

(* The file input: importFromFile(file, engine), the file read and the     *)
(* promise settled in one step.                                            *)
ImportFromFile(file) ==
    /\ importSettles(file)
    /\ UNCHANGED pendingImports

Next ==
    \/ \E rc \in ClickCells : SelectSquare(rc[1], rc[2])
    \/ NewGame
    \/ Undo
    \/ Redo
    \/ GetStatus
    \/ \E data \in SavedStates : Load(data)
    \/ \E raw \in StoredItems : LoadFromLocalStorage(raw)
    \/ \E file \in ImportFiles : ImportFromFile(file)

Spec ==
    Init /\ [][Next]_vars

(* The games played from newGame() by selectSquare, undo and redo alone.   *)
GameNext ==
    \/ \E rc \in ClickCells : SelectSquare(rc[1], rc[2])
    \/ NewGame
    \/ Undo
    \/ Redo

GameSpec ==
    Init /\ [][GameNext]_vars

(* ------------------------------ the page -------------------------------- *)

(* The events of the page in any order: the file import is started by the  *)
(* change event and completes later, other events in between.              *)
ImportStart ==
    /\ pendingImports < MaxPendingImports
    /\ pendingImports' = pendingImports + 1
    /\ UNCHANGED <<engineVars, lastChange, moveCount, legalCache, rendered, scan>>

ImportComplete(file) ==
    /\ pendingImports > 0
    /\ pendingImports' = pendingImports - 1
    /\ importSettles(file)

(* The window's resize handler: renderNow() on the cache as it is.         *)
Resize ==
    /\ \E drawn \in {renderNow(Engine, legalCache)} :
          /\ legalCache' = drawn.legalCache
          /\ rendered' = drawn.legal
    /\ UNCHANGED <<engineVars, lastChange, moveCount, pendingImports, scan>>

UiNext ==
    \/ \E rc \in ClickCells : SelectSquare(rc[1], rc[2])
    \/ NewGame
    \/ Undo
    \/ Redo
    \/ \E raw \in StoredItems : LoadFromLocalStorage(raw)
    \/ ImportStart
    \/ \E file \in ImportFiles : ImportComplete(file)
    \/ Resize

UiSpec ==
    Init /\ [][UiNext]_vars

(* ------------------- a call of countPiecesBetween ----------------------- *)

(* The call and the statements before the loop: the branch on the line,    *)
(* `step`, `cnt = 0` and the loop's initialisation, or `return -1`.        *)
ScanCall(from, to) ==
    /\ scan.pc \in {"idle", "done"}
    /\ scan' =
         IF from[1] = to[1]
         THEN LET step == IF from[2] < to[2] THEN 1 ELSE -1
              IN  [pc |-> "rowTest", fromRow |-> from[1], fromCol |-> from[2],
                   toRow |-> to[1], toCol |-> to[2], step |-> step,
                   i |-> from[2] + step, cnt |-> 0, result |-> 0]
         ELSE IF from[2] = to[2]
         THEN LET step == IF from[1] < to[1] THEN 1 ELSE -1
              IN  [pc |-> "colTest", fromRow |-> from[1], fromCol |-> from[2],
                   toRow |-> to[1], toCol |-> to[2], step |-> step,
                   i |-> from[1] + step, cnt |-> 0, result |-> 0]
         ELSE [pc |-> "done", fromRow |-> from[1], fromCol |-> from[2],
               toRow |-> to[1], toCol |-> to[2], step |-> 0,
               i |-> 0, cnt |-> 0, result |-> -1]
    /\ UNCHANGED <<engineVars, lastChange, moveCount, uiVars>>

(* The loop's test, `c !== toCol` or `r !== toRow`: into the body, or past *)
(* the loop to `return cnt`.                                               *)
ScanTest ==
    /\ scan.pc \in {"rowTest", "colTest"}
    /\ scan' =
         IF scan.pc = "rowTest"
         THEN IF scan.i # scan.toCol
              THEN [scan EXCEPT !.pc = "rowBody"]
              ELSE [scan EXCEPT !.pc = "done", !.result = scan.cnt]
         ELSE IF scan.i # scan.toRow
              THEN [scan EXCEPT !.pc = "colBody"]
              ELSE [scan EXCEPT !.pc = "done", !.result = scan.cnt]
    /\ UNCHANGED <<engineVars, lastChange, moveCount, uiVars>>

(* The loop's body and its increment: `if (board.getPiece(..)) cnt++` and  *)
(* `c += step` or `r += step`.                                             *)
ScanBody ==
    /\ scan.pc \in {"rowBody", "colBody"}
    /\ scan' =
         IF scan.pc = "rowBody"
         THEN [scan EXCEPT
                  !.cnt = IF getPiece(board, scan.fromRow, scan.i) # Empty
                          THEN scan.cnt + 1 ELSE scan.cnt,
                  !.i = plusStep(scan.i, scan.step),
                  !.pc = "rowTest"]
         ELSE [scan EXCEPT
                  !.cnt = IF getPiece(board, scan.i, scan.fromCol) # Empty
                          THEN scan.cnt + 1 ELSE scan.cnt,
                  !.i = plusStep(scan.i, scan.step),
                  !.pc = "colTest"]
    /\ UNCHANGED <<engineVars, lastChange, moveCount, uiVars>>

ScanNext ==
    \/ \E from \in ScanCells, to \in ScanCells : ScanCall(from, to)
    \/ ScanTest
    \/ ScanBody

ScanSpec ==
    Init /\ [][ScanNext]_vars

(* A call that has begun runs on: the script is never left in the middle   *)
(* of a statement it can execute.                                          *)
FairScanSpec ==
    ScanSpec /\ WF_vars(ScanTest) /\ WF_vars(ScanBody)

(* --------------------------- a Board on its own ------------------------- *)

(* A Board driven through its own methods, as the rules see it: any        *)
(* arrangement of pieces, not only those a game reaches.  The engine's     *)
(* other fields keep the values they have after construction.              *)

(* The squares setPiece and movePiece are called with: six squares on      *)
(* columns 1 and 2 between the two camps, and one square beyond two edges. *)
PlaceCells ==
    {<<3, 1>>, <<4, 1>>, <<5, 1>>, <<6, 1>>, <<4, 2>>, <<5, 2>>}

OffBoardCells ==
    {<<-1, 1>>, <<4, cols>>}

MoveCells ==
    PlaceCells \cup OffBoardCells \cup {<<7, 1>>, <<2, 1>>}

(* The values setPiece is called with.                                     *)
PlacePieces ==
    {Piece(t, side) : t \in {"C", "H", "S"}, side \in {"red", "black"}}
        \cup {Empty}

(* new Board(): a grid of empty cells.                                     *)
BoardInit ==
    /\ board = EmptyGrid
    /\ sideToMove = "red"
    /\ selected = NoPos
    /\ history = << >>
    /\ redoStack = << >>
    /\ gameOver = FALSE
    /\ gameOverReason = ""
    /\ refs = [board |-> 1, history |-> << >>, redoStack |-> << >>]
    /\ lastChange = "newBoard"
    /\ moveCount = 0
    /\ legalCache = NoCache
    /\ rendered = << >>
    /\ pendingImports = 0
    /\ scan = NoScan

SetPiece(row, col, piece) ==
    /\ moveCount < MaxBoardCalls
    /\ board' = setPiece(board, row, col, piece)
    /\ lastChange' = "setPiece"
    /\ moveCount' = moveCount + 1
    /\ UNCHANGED <<sideToMove, selected, history, redoStack, gameOver,
                   gameOverReason, refs, uiVars, scan>>

MovePiece(fromRow, fromCol, toRow, toCol) ==
    /\ moveCount < MaxBoardCalls
    /\ board' = movePiece(board, fromRow, fromCol, toRow, toCol).board
    /\ lastChange' = "movePiece"
    /\ moveCount' = moveCount + 1
    /\ UNCHANGED <<sideToMove, selected, history, redoStack, gameOver,
                   gameOverReason, refs, uiVars, scan>>

SetupInitial ==
    /\ board' = setupInitial
    /\ lastChange' = "setupInitial"
    /\ moveCount' = 0
    /\ UNCHANGED <<sideToMove, selected, history, redoStack, gameOver,
                   gameOverReason, refs, uiVars, scan>>

BoardNext ==
    \/ \E rc \in PlaceCells \cup OffBoardCells : \E piece \in PlacePieces :
           SetPiece(rc[1], rc[2], piece)
    \/ \E from \in MoveCells : \E to \in MoveCells :
           MovePiece(from[1], from[2], to[1], to[2])
    \/ SetupInitial

BoardSpec ==
    BoardInit /\ [][BoardNext]_vars

(* ------------------------------ properties ------------------------------ *)

(* What selectSquare(rc) would do and return in the current state.         *)
clickResult(rc) ==
    selectSquare(Engine, rc[1], rc[2])

(* The clicked square holds a piece of the side to move.                   *)
ownPieceAt(rc) ==
    /\ getPiece(board, rc[1], rc[2]) # Empty
    /\ getPiece(board, rc[1], rc[2]).side = sideToMove

(* The clicked square is a legal destination of the selected piece.        *)
legalDestination(rc) ==
    /\ selected # NoPos
    /\ isLegalMove(board, selected[1], selected[2], rc[1], rc[2], sideToMove)

(* The click commits a move: it returns true and the history grows by one. *)
commits(rc) ==
    /\ clickResult(rc).ret
    /\ Len(clickResult(rc).engine.history) = Len(history) + 1

(* A Red piece is selected, Red is to move, and rc is another Red piece.   *)
anotherRedPiece(rc) ==
    /\ selected # NoPos
    /\ sideToMove = "red"
    /\ getPiece(board, selected[1], selected[2]) # Empty
    /\ getPiece(board, selected[1], selected[2]).side = "red"
    /\ rc # selected
    /\ getPiece(board, rc[1], rc[2]) # Empty
    /\ getPiece(board, rc[1], rc[2]).side = "red"

(* C1 as stated: with a Red piece selected and Red to move, selectSquare   *)
(* on a square holding another Red piece returns false and leaves          *)
(* `selected` unchanged.                                                   *)
C1_ClickOwnPieceRefused ==
    \A rc \in ClickCells :
        anotherRedPiece(rc) =>
            /\ ~clickResult(rc).ret
            /\ clickResult(rc).engine.selected = selected

(* C1 as the code has it: with a Red piece selected and Red to move,       *)
(* selectSquare on a square holding another Red piece returns true and     *)
(* makes that square the selection; nothing else of the engine changes.    *)
C1_ClickOwnPieceReselects ==
    \A rc \in ClickCells :
        anotherRedPiece(rc) =>
            /\ clickResult(rc).ret
            /\ clickResult(rc).engine = [Engine EXCEPT !.selected = rc]

(* A selection has just been moved from one Red piece to another.          *)
C1_Witness ==
    /\ lastChange = "reselect"
    /\ sideToMove = "red"
    /\ selected # NoPos
    /\ getPiece(board, selected[1], selected[2]).side = "red"

(* The two Generals stand on one column with no piece strictly between.    *)
generalsFace(b) ==
    \E c \in ColIdx : \E r1 \in RowIdx : \E r2 \in RowIdx :
        /\ r1 < r2
        /\ b[r1][c].type = "K"
        /\ b[r2][c].type = "K"
        /\ b[r1][c].side # b[r2][c].side
        /\ \A r \in RowIdx : (r1 < r /\ r < r2) => b[r][c] = Empty

(* The board obtained by making the move.                                  *)
boardAfter(b, from, to) ==
    [b EXCEPT ![to[1]][to[2]] = b[from[1]][from[2]], ![from[1]][from[2]] = Empty]

(* C2: for every side, origin and destination, isLegalMove returns true    *)
(* only if on the board after the move the mover's General is not in       *)
(* check and the two Generals do not face each other on an open column.    *)
C2_LegalMoveIsSafe ==
    \A side \in {"red", "black"} : \A from \in Cells : \A to \in Cells :
        isLegalMove(board, from[1], from[2], to[1], to[2], side) =>
            /\ ~isInCheck(boardAfter(board, from, to), side)
            /\ ~generalsFace(boardAfter(board, from, to))

(* A geometrically valid move that would leave the Generals facing is      *)
(* rejected, while the same piece has a legal move elsewhere.              *)
C2_Witness ==
    \E from \in ClickCells : \E to \in ClickCells : \E to2 \in ClickCells :
        /\ inBounds(from[1], from[2]) /\ inBounds(to[1], to[2])
        /\ getPiece(board, from[1], from[2]).side = sideToMove
        /\ canBasicMove(board, getPiece(board, from[1], from[2]),
                        from[1], from[2], to[1], to[2])
        /\ generalsFace(boardAfter(board, from, to))
        /\ ~isInCheck(boardAfter(board, from, to), sideToMove)
        /\ ~isLegalMove(board, from[1], from[2], to[1], to[2], sideToMove)
        /\ isLegalMove(board, from[1], from[2], to2[1], to2[2], sideToMove)

(* C3 as stated: in any state with a non-empty history, undo() followed    *)
(* immediately by redo() leaves the board and sideToMove as they were      *)
(* before the undo.                                                        *)
C3_UndoRedoRoundTrip ==
    Len(history) > 0 =>
        /\ redo(undo(Engine).engine).engine.board = board
        /\ redo(undo(Engine).engine).engine.sideToMove = sideToMove

(* C4: a move committed by selectSquare and followed immediately by        *)
(* undo(): undo returns true, board and sideToMove are as before the move, *)
(* nothing is selected, gameOver is false with an empty reason, and the    *)
(* undone entry is on top of redoStack.                                    *)
C4_UndoOfCommit ==
    \A rc \in ClickCells :
        commits(rc) =>
            LET moved == clickResult(rc).engine
                u == undo(moved)
            IN  /\ u.ret
                /\ u.engine.board = board
                /\ u.engine.sideToMove = sideToMove
                /\ u.engine.selected = NoPos
                /\ u.engine.gameOver = FALSE
                /\ u.engine.gameOverReason = ""
                /\ Len(u.engine.redoStack) = Len(moved.redoStack) + 1
                /\ u.engine.redoStack[Len(u.engine.redoStack)] =
                       [before |-> board, after |-> moved.board, side |-> sideToMove]
                /\ u.engine.history = history

(* A mating move has been undone: the game is live again and the entry on  *)
(* top of redoStack leads to a checkmate.                                  *)
C4_Witness ==
    /\ lastChange = "undo"
    /\ redoStack # << >>
    /\ ~gameOver
    /\ gameOverReason = ""
    /\ selected = NoPos
    /\ board = redoStack[Len(redoStack)].before
    /\ sideToMove = redoStack[Len(redoStack)].side
    /\ isCheckmate(redoStack[Len(redoStack)].after,
                   otherSide(redoStack[Len(redoStack)].side))

(* C5: right after any move committed by selectSquare the redoStack is     *)
(* empty, so redo() then returns false and changes nothing.                *)
C5_CommitClearsRedo ==
    \A rc \in ClickCells :
        commits(rc) =>
            /\ clickResult(rc).engine.redoStack = << >>
            /\ redo(clickResult(rc).engine) =
                   [engine |-> clickResult(rc).engine, ret |-> FALSE]

(* After an undo there is a move to redo, a piece is selected and a new    *)
(* move is committed instead: the redo that follows is refused.            *)
C5_Witness ==
    /\ redoStack # << >>
    /\ selected # NoPos
    /\ \E rc \in ClickCells :
           /\ commits(rc)
           /\ clickResult(rc).engine.board # redoStack[Len(redoStack)].after
           /\ ~redo(clickResult(rc).engine).ret

(* C6: right after selectSquare commits a move, gameOver holds exactly     *)
(* when the side now to move has no legal move; the reason names the       *)
(* other side as winner when that side is in check and is the draw text    *)
(* when it is not; a side in check that has a legal move plays on.         *)
C6_Verdict ==
    \A rc \in ClickCells :
        commits(rc) =>
            LET e2 == clickResult(rc).engine
                noMove == generateLegalMoves(e2.board, e2.sideToMove) = << >>
                inCheck == isInCheck(e2.board, e2.sideToMove)
            IN  /\ e2.gameOver <=> noMove
                /\ (noMove /\ inCheck) =>
                       e2.gameOverReason =
                           IF e2.sideToMove = "red"
                           THEN "red is checkmated, black wins!"
                           ELSE "black is checkmated, red wins!"
                /\ (noMove /\ ~inCheck) =>
                       e2.gameOverReason = "stalemate for both sides, no legal move."
                /\ (inCheck /\ ~noMove) => ~e2.gameOver

(* A move has just mated Black.                                            *)
C6_Witness ==
    /\ lastChange = "move"
    /\ gameOver
    /\ sideToMove = "black"
    /\ gameOverReason = "black is checkmated, red wins!"
    /\ isInCheck(board, "black")

(* C7: while gameOver holds, selectSquare returns false for every square   *)
(* and changes no part of the engine.                                      *)
C7_GameOverFreezesClicks ==
    gameOver =>
        \A rc \in ClickCells :
            clickResult(rc) = [engine |-> Engine, ret |-> FALSE]

(* The game is over and a click on a piece of the side to move, which      *)
(* would select it in a live game, is refused.                             *)
C7_Witness ==
    /\ gameOver
    /\ \E rc \in ClickCells :
           /\ ownPieceAt(rc)
           /\ ~clickResult(rc).ret
           /\ clickResult(rc).engine.selected = NoPos

(* C8: a click on a square that holds no piece of the side to move and is  *)
(* no legal destination of the selection (none selected and out-of-range   *)
(* squares included) returns false and changes nothing of the engine.      *)
C8_RefusedClickChangesNothing ==
    \A rc \in ClickCells :
        (~ownPieceAt(rc) /\ ~legalDestination(rc)) =>
            clickResult(rc) = [engine |-> Engine, ret |-> FALSE]

(* With a piece selected, a destination it could reach by its geometry is  *)
(* refused because the move is not legal, and so is a square off the       *)
(* board; the selection stays.                                             *)
C8_Witness ==
    /\ selected # NoPos
    /\ ~gameOver
    /\ \E rc \in ClickCells :
           /\ canBasicMove(board, getPiece(board, selected[1], selected[2]),
                           selected[1], selected[2], rc[1], rc[2])
           /\ ~legalDestination(rc)
           /\ ~clickResult(rc).ret
           /\ clickResult(rc).engine.selected = selected
    /\ \E rc \in ClickCells :
           /\ ~inBounds(rc[1], rc[2])
           /\ clickResult(rc) = [engine |-> Engine, ret |-> FALSE]

(* C9: with a piece selected, selectSquare on a destination isLegalMove    *)
(* accepts returns true; the piece then stands on the destination, its     *)
(* origin is empty, every other cell is unchanged, the turn passes and     *)
(* nothing is selected.  From newGame, selectSquare(6,4) then              *)
(* selectSquare(5,4) puts the Red Soldier on (5,4) with Black to move.     *)
C9_LegalMoveIsPlayed ==
    /\ \A rc \in ClickCells :
           legalDestination(rc) =>
               LET e2 == clickResult(rc).engine
               IN  /\ clickResult(rc).ret
                   /\ e2.board[rc[1]][rc[2]] = board[selected[1]][selected[2]]
                   /\ e2.board[selected[1]][selected[2]] = Empty
                   /\ \A cell \in Cells :
                          (cell # rc /\ cell # selected) =>
                              e2.board[cell[1]][cell[2]] = board[cell[1]][cell[2]]
                   /\ e2.sideToMove = otherSide(sideToMove)
                   /\ e2.selected = NoPos
    /\ Engine = newGame(Engine) =>
           LET first == selectSquare(Engine, 6, 4)
               second == selectSquare(first.engine, 5, 4)
           IN  /\ first.ret
               /\ second.ret
               /\ second.engine.board[5][4] = Piece("S", "red")
               /\ second.engine.board[6][4] = Empty
               /\ second.engine.sideToMove = "black"

(* The Red Soldier has just stepped from (6,4) to (5,4) in a new game.     *)
C9_Witness ==
    /\ lastChange = "move"
    /\ Len(history) = 1
    /\ history[1].before = setupInitial
    /\ board[5][4] = Piece("S", "red")
    /\ board[6][4] = Empty
    /\ sideToMove = "black"
    /\ selected = NoPos

(* C10, the calls: a click that commits a move appends one entry holding   *)
(* the board before, the board after and the mover; any other click, and   *)
(* redo, leave the history as it is.                                       *)
historyAfterCalls ==
    /\ \A rc \in ClickCells :
           IF ~gameOver /\ ~ownPieceAt(rc) /\ legalDestination(rc)
           THEN clickResult(rc).engine.history =
                    Append(history, [before |-> board,
                                     after |-> clickResult(rc).engine.board,
                                     side |-> sideToMove])
           ELSE clickResult(rc).engine.history = history
    /\ redo(Engine).engine.history = history

(* C10, the steps: the history grows only by a committed move, and then    *)
(* by exactly the entry of that move.                                      *)
historyGrowsByMove ==
    Len(history') > Len(history) =>
        /\ lastChange' = "move"
        /\ history' = Append(history, [before |-> board, after |-> board',
                                       side |-> sideToMove])
        /\ sideToMove' = otherSide(sideToMove)

(* C10: each move committed by selectSquare appends exactly one history    *)
(* entry, with `before` the board just before the move, `after` the board  *)
(* just after it and `side` the side that moved; selecting a piece, a      *)
(* refused selectSquare, redo and getStatus append nothing.                *)
C10_HistoryEntries ==
    [](historyAfterCalls) /\ [][historyGrowsByMove]_vars

(* Two moves have been committed, the second on top of the first.          *)
C10_Witness ==
    /\ lastChange = "move"
    /\ Len(history) = 2
    /\ history[2].before = history[1].after
    /\ history[2].after = board
    /\ history[2].side = otherSide(sideToMove)

(* C11: undo() with an empty history and redo() with an empty redoStack   *)
(* each return false and leave every field of the engine as it was.        *)
C11_NothingToUndoOrRedo ==
    /\ history = << >> => undo(Engine) = [engine |-> Engine, ret |-> FALSE]
    /\ redoStack = << >> => redo(Engine) = [engine |-> Engine, ret |-> FALSE]

(* Both stacks are empty away from the opening, with a piece selected:     *)
(* undo and redo are both refused.                                         *)
C11_Witness ==
    /\ history = << >>
    /\ redoStack = << >>
    /\ board # setupInitial
    /\ selected # NoPos
    /\ ~undo(Engine).ret
    /\ ~redo(Engine).ret

(* The opening layout, cell by cell: Black on rows 0, 2 and 3, Red the     *)
(* mirror on rows 9, 7 and 6.                                              *)
openingLayout ==
    gridOf({<<0, 0, "R", "black">>, <<0, 8, "R", "black">>,
            <<0, 1, "H", "black">>, <<0, 7, "H", "black">>,
            <<0, 2, "E", "black">>, <<0, 6, "E", "black">>,
            <<0, 3, "A", "black">>, <<0, 5, "A", "black">>,
            <<0, 4, "K", "black">>,
            <<2, 1, "C", "black">>, <<2, 7, "C", "black">>,
            <<3, 0, "S", "black">>, <<3, 2, "S", "black">>, <<3, 4, "S", "black">>,
            <<3, 6, "S", "black">>, <<3, 8, "S", "black">>,
            <<9, 0, "R", "red">>, <<9, 8, "R", "red">>,
            <<9, 1, "H", "red">>, <<9, 7, "H", "red">>,
            <<9, 2, "E", "red">>, <<9, 6, "E", "red">>,
            <<9, 3, "A", "red">>, <<9, 5, "A", "red">>,
            <<9, 4, "K", "red">>,
            <<7, 1, "C", "red">>, <<7, 7, "C", "red">>,
            <<6, 0, "S", "red">>, <<6, 2, "S", "red">>, <<6, 4, "S", "red">>,
            <<6, 6, "S", "red">>, <<6, 8, "S", "red">>})

(* C12: from any engine state newGame() yields the standard 32-piece       *)
(* opening, Red to move, nothing selected, empty history and redoStack,    *)
(* gameOver false and an empty reason.                                     *)
C12_NewGameResets ==
    /\ newGame(Engine).board = openingLayout
    /\ Cardinality({cell \in Cells :
                       newGame(Engine).board[cell[1]][cell[2]] # Empty}) = 32
    /\ newGame(Engine).sideToMove = "red"
    /\ newGame(Engine).selected = NoPos
    /\ newGame(Engine).history = << >>
    /\ newGame(Engine).redoStack = << >>
    /\ newGame(Engine).gameOver = FALSE
    /\ newGame(Engine).gameOverReason = ""

(* A game that has ended, away from the opening and with a history, is     *)
(* about to be reset.                                                      *)
C12_Witness ==
    /\ gameOver
    /\ gameOverReason # ""
    /\ history # << >>
    /\ board # openingLayout
    /\ newGame(Engine).board = openingLayout
    /\ ~newGame(Engine).gameOver

(* The engine states one or two undo/redo calls away from this one.       *)
undoRedoNeighbours ==
    {undo(Engine).engine, redo(Engine).engine,
     redo(undo(Engine).engine).engine, undo(redo(Engine).engine).engine}

(* C13 as stated, for this state and the states an undo and a redo away:   *)
(* two engine states with the same board and the same side to move give    *)
(* the same getStatus() result, field for field.                           *)
C13_StatusFromBoardAndSide ==
    \A e2 \in undoRedoNeighbours :
        (e2.board = board /\ e2.sideToMove = sideToMove) =>
            /\ getStatus(e2).gameOver = getStatus(Engine).gameOver
            /\ getStatus(e2).gameOverReason = getStatus(Engine).gameOverReason
            /\ getStatus(e2).inCheck = getStatus(Engine).inCheck
            /\ getStatus(e2).checkmate = getStatus(Engine).checkmate
            /\ getStatus(e2).stalemate = getStatus(Engine).stalemate

(* The board with one cell emptied.                                        *)
withoutPiece(b, cell) ==
    [b EXCEPT ![cell[1]][cell[2]] = Empty]

(* The live board and the boards that lack one of its pieces (a General    *)
(* or an attacker among them).                                             *)
boardsNearby ==
    {board} \cup {withoutPiece(board, cell) : cell \in ClickCells \cap Cells}

(* The board holds a General of `side` on a cell that some piece of the    *)
(* other side reaches by canBasicMove.                                     *)
generalAttacked(b, side) ==
    \E k \in Cells :
        /\ b[k[1]][k[2]] = Piece("K", side)
        /\ \E a \in Cells :
               /\ b[a[1]][a[2]] # Empty
               /\ b[a[1]][a[2]].side # side
               /\ canBasicMove(b, b[a[1]][a[2]], a[1], a[2], k[1], k[2])

(* C14: for every board and side, isInCheck(board, side) is true exactly   *)
(* when the board holds a General of that side and some piece of the       *)
(* other side satisfies canBasicMove from its cell to that General's cell. *)
C14_InCheckIffAttacked ==
    \A b \in boardsNearby : \A side \in {"red", "black"} :
        isInCheck(b, side) <=> generalAttacked(b, side)

(* The side to move has just been put in check; without the attacker, or   *)
(* without its General, it is not in check.                                *)
C14_Witness ==
    /\ lastChange = "move"
    /\ isInCheck(board, sideToMove)
    /\ \E k \in ClickCells \cap Cells :
           /\ board[k[1]][k[2]] = Piece("K", sideToMove)
           /\ ~isInCheck(withoutPiece(board, k), sideToMove)
    /\ \E a \in ClickCells \cap Cells :
           /\ board[a[1]][a[2]] # Empty
           /\ board[a[1]][a[2]].side # sideToMove
           /\ ~isInCheck(withoutPiece(board, a), sideToMove)

(* The boards isLegalMove examines: the live board after a move that the   *)
(* geometry of a piece of the side to move allows.                         *)
simulatedBoards ==
    {movePiece(clone(board), from[1], from[2], to[1], to[2]).board :
        <<from, to>> \in
            {ft \in (ClickCells \cap Cells) \X (ClickCells \cap Cells) :
                /\ board[ft[1][1]][ft[1][2]] # Empty
                /\ board[ft[1][1]][ft[1][2]].side = sideToMove
                /\ canBasicMove(board, board[ft[1][1]][ft[1][2]],
                                ft[1][1], ft[1][2], ft[2][1], ft[2][2])}}

(* A piece other than a General reaches the General of `side` by           *)
(* canBasicMove.                                                           *)
attackedByOtherPiece(b, side) ==
    \E k \in Cells :
        /\ b[k[1]][k[2]] = Piece("K", side)
        /\ \E a \in Cells :
               /\ b[a[1]][a[2]] # Empty
               /\ b[a[1]][a[2]].side # side
               /\ b[a[1]][a[2]].type # "K"
               /\ canBasicMove(b, b[a[1]][a[2]], a[1], a[2], k[1], k[2])

ScenarioC ==
    gridOf({<<0, 4, "K", "black">>, <<5, 4, "R", "red">>, <<6, 3, "R", "red">>,
            <<7, 5, "R", "red">>, <<9, 4, "K", "red">>})

(* C16: for every board and side, isCheckmate is (isInCheck and no legal   *)
(* move), isStalemate is (not isInCheck and no legal move), and the two    *)
(* are never both true; in Scenario C Black is checkmated.                 *)
C16_MateAndStalemate ==
    /\ \A side \in {"red", "black"} :
           LET noMove == generateLegalMoves(board, side) = << >>
               inCheck == isInCheck(board, side)
           IN  /\ isCheckmate(board, side) <=> (inCheck /\ noMove)
               /\ isStalemate(board, side) <=> (~inCheck /\ noMove)
               /\ ~(isCheckmate(board, side) /\ isStalemate(board, side))
    /\ countPiecesBetween(ScenarioC, 5, 4, 0, 4) = 0
    /\ generateLegalMoves(ScenarioC, "black") = << >>
    /\ isCheckmate(ScenarioC, "black")
    /\ ~isStalemate(ScenarioC, "black")

(* A move has left the side to move without a legal move and in check:     *)
(* checkmate and not stalemate.                                            *)
C16_Witness ==
    /\ lastChange = "move"
    /\ isInCheck(board, sideToMove)
    /\ generateLegalMoves(board, sideToMove) = << >>
    /\ isCheckmate(board, sideToMove)
    /\ ~isStalemate(board, sideToMove)

(* The cells holding a General of `side`.                                  *)
generalsOf(b, side) ==
    {cell \in Cells : b[cell[1]][cell[2]] = Piece("K", side)}

(* The number of pieces on the board.                                      *)
pieceCount(b) ==
    Cardinality({cell \in Cells : b[cell[1]][cell[2]] # Empty})

(* C17: in every engine state reached by selectSquare, undo and redo the   *)
(* board holds exactly one Red General and exactly one Black General.      *)
C17_OneGeneralEach ==
    /\ Cardinality(generalsOf(board, "red")) = 1
    /\ Cardinality(generalsOf(board, "black")) = 1

(* The General has stepped away from its pinned Advisor and the Rook has   *)
(* captured the Advisor: both Generals are still on the board.             *)
C17_Witness ==
    /\ lastChange = "move"
    /\ Len(history) = 2
    /\ pieceCount(history[2].after) < pieceCount(history[2].before)
    /\ board = history[2].after
    /\ Cardinality(generalsOf(board, "red")) = 1
    /\ Cardinality(generalsOf(board, "black")) = 1

(* C18, sharing: the live board and the boards stored in history and      *)
(* redoStack entries are all different objects.                            *)
noSharedBoards ==
    \A i \in DOMAIN refList(refs) : \A j \in DOMAIN refList(refs) :
        i # j => refList(refs)[i] # refList(refs)[j]

(* C18, contents: an entry that stays at its place in history or in        *)
(* redoStack shows the same boards after the step as before it, and the    *)
(* entry an undo moves to the redoStack shows the boards it had in         *)
(* history.                                                                *)
storedBoardsKept ==
    /\ \A i \in DOMAIN history' :
           i <= Len(history) =>
               /\ history'[i].before = history[i].before
               /\ history'[i].after = history[i].after
    /\ \A i \in DOMAIN redoStack' :
           i <= Len(redoStack) =>
               /\ redoStack'[i].before = redoStack[i].before
               /\ redoStack'[i].after = redoStack[i].after
    /\ (Len(history') < Len(history) /\ Len(redoStack') > Len(redoStack)) =>
           /\ redoStack'[Len(redoStack')].before = history[Len(history)].before
           /\ redoStack'[Len(redoStack')].after = history[Len(history)].after

(* C18: in every reachable state no board stored in a history or           *)
(* redoStack entry is the same object as the live board or as another      *)
(* stored board, and the contents of a stored snapshot never change once   *)
(* the entry is pushed, whatever moves, undos and redos follow.            *)
C18_SnapshotsAreIndependent ==
    [](noSharedBoards) /\ [][storedBoardsKept]_vars

(* After two moves and an undo, history and redoStack hold one entry       *)
(* each; the live board equals the redo entry's `before` and the history   *)
(* entry's `after` in contents and is neither of those objects.            *)
C18_Witness ==
    /\ lastChange = "undo"
    /\ Len(history) = 1
    /\ Len(redoStack) = 1
    /\ board = redoStack[1].before
    /\ board = history[1].after
    /\ refs.board # refs.redoStack[1].before
    /\ refs.board # refs.history[1].after
    /\ refs.history[1].after # refs.redoStack[1].before

(* C19: for every engine state and every engine2,                         *)
(* applyToEngine(serializeEngine(engine), engine2) returns true and        *)
(* leaves engine2 with a grid equal cell for cell (type and side) to       *)
(* engine's, the same sideToMove, nothing selected and empty history and   *)
(* redoStack.                                                              *)
C19_SaveLoadRoundTrip ==
    \A engine2 \in {Engine, newGame(Engine), undo(Engine).engine} :
        LET loaded == applyToEngine(serializeEngine(Engine), engine2)
        IN  /\ loaded.ret
            /\ \A cell \in Cells :
                   /\ loaded.engine.board[cell[1]][cell[2]].type =
                          board[cell[1]][cell[2]].type
                   /\ loaded.engine.board[cell[1]][cell[2]].side =
                          board[cell[1]][cell[2]].side
            /\ DOMAIN loaded.engine.board = RowIdx
            /\ loaded.engine.sideToMove = sideToMove
            /\ loaded.engine.selected = NoPos
            /\ loaded.engine.history = << >>
            /\ loaded.engine.redoStack = << >>

(* In the middle of a game, Black to move, a piece selected, both stacks   *)
(* non-empty: the saved state loads into an engine that has dropped the    *)
(* selection and both stacks and kept the board and the turn.              *)
C19_Witness ==
    /\ sideToMove = "black"
    /\ selected # NoPos
    /\ history # << >>
    /\ redoStack # << >>
    /\ board # setupInitial
    /\ applyToEngine(serializeEngine(Engine), Engine).ret
    /\ applyToEngine(serializeEngine(Engine), Engine).engine.board = board
    /\ applyToEngine(serializeEngine(Engine), Engine).engine.sideToMove = "black"
    /\ applyToEngine(serializeEngine(Engine), Engine).engine.history = << >>

(* Saved states with a structural mismatch, made from the Rook ending:     *)
(* no data, no grid array, 9 rows, 11 rows, a row of 8 cells, a row of 10. *)
MalformedStates ==
    {[RookEnding EXCEPT !.isNull = TRUE],
     NoGrid,
     [RookEnding EXCEPT !.grid = [r \in 0 .. (rows - 2) |-> RookEnding.grid[r]]],
     [RookEnding EXCEPT !.grid = [r \in 0 .. rows |->
                                     RookEnding.grid[IF r = rows THEN 0 ELSE r]]],
     [RookEnding EXCEPT !.grid[0] = [c \in 0 .. (cols - 2) |-> NullCell]],
     [RookEnding EXCEPT !.grid[0] = [c \in 0 .. cols |->
                                        IF c = 3 THEN [t |-> "K", s |-> "black"]
                                        ELSE NullCell]]}

(* C20 as stated: applyToEngine returns false, and leaves the engine as    *)
(* it was, for every saved state whose grid is missing, is no array, has   *)
(* a row count other than 10 or has a row with a cell count other than 9.  *)
C20_MalformedSaveRefused ==
    \A data \in MalformedStates :
        applyToEngine(data, Engine) = [engine |-> Engine, ret |-> FALSE]

(* The loads tried in every state: the malformed states and the states    *)
(* the actions load.                                                       *)
LoadInputs ==
    MalformedStates \cup SavedStates \cup {NineRows}

(* C21: whenever applyToEngine, loadFromLocalStorage or importFromFile     *)
(* reports failure, the engine's board, sideToMove, selected, history,     *)
(* redoStack, gameOver and gameOverReason are what they were before the    *)
(* call.                                                                   *)
C21_FailedLoadChangesNothing ==
    /\ \A data \in LoadInputs :
           ~applyToEngine(data, Engine).ret =>
               applyToEngine(data, Engine).engine = Engine
    /\ \A raw \in StoredItems \cup {itemOf(data) : data \in LoadInputs} :
           ~loadFromLocalStorage(raw, Engine).ret =>
               loadFromLocalStorage(raw, Engine).engine = Engine
    /\ \A file \in ImportFiles \cup {fileOf(data) : data \in LoadInputs} :
           ~importFromFile(file, Engine).ret =>
               importFromFile(file, Engine).engine = Engine

(* In the middle of a game, a piece selected and both stacks non-empty,    *)
(* a saved state of nine rows is refused by all three operations after     *)
(* nine rows have been read.                                               *)
C21_Witness ==
    /\ selected # NoPos
    /\ history # << >>
    /\ redoStack # << >>
    /\ ~applyToEngine(NineRows, Engine).ret
    /\ ~loadFromLocalStorage(itemOf(NineRows), Engine).ret
    /\ ~importFromFile(fileOf(NineRows), Engine).ret

(* C22 as stated: for a malformed saved state (no grid array, wrong        *)
(* dimensions) loadFromLocalStorage returns a value other than the one it  *)
(* returns when nothing is stored.                                         *)
C22_MalformedDiffersFromMissing ==
    \A data \in MalformedStates :
        loadFromLocalStorage(itemOf(data), Engine).ret #
            loadFromLocalStorage(NoItem, Engine).ret

(* The destinations canBasicMove is asked about: every square of the      *)
(* board and the squares just beyond its edges.                            *)
Destinations ==
    (-1 .. rows) \X (-1 .. cols)

(* The occupied squares strictly between two squares of one row or column. *)
screens(b, from, to) ==
    {cell \in Cells :
        /\ b[cell[1]][cell[2]] # Empty
        /\ \/ /\ cell[1] = from[1] /\ from[1] = to[1]
              /\ \/ from[2] < cell[2] /\ cell[2] < to[2]
                 \/ to[2] < cell[2] /\ cell[2] < from[2]
           \/ /\ cell[2] = from[2] /\ from[2] = to[2]
              /\ \/ from[1] < cell[1] /\ cell[1] < to[1]
                 \/ to[1] < cell[1] /\ cell[1] < from[1]}

(* C23: for a Cannon, canBasicMove to a square of its row or column is     *)
(* true exactly when the square is empty with no piece strictly between,   *)
(* or holds an enemy piece with exactly one piece strictly between; to     *)
(* any square off its row and column it is false.                          *)
C23_CannonMoves ==
    \A from \in Cells : \A to \in Cells :
        LET piece == board[from[1]][from[2]]
            target == board[to[1]][to[2]]
            can == canBasicMove(board, piece, from[1], from[2], to[1], to[2])
            between == Cardinality(screens(board, from, to))
        IN  (piece # Empty /\ piece.type = "C") =>
                IF from[1] = to[1] \/ from[2] = to[2]
                THEN can <=> \/ target = Empty /\ between = 0
                             \/ /\ target # Empty
                                /\ target.side # piece.side
                                /\ between = 1
                ELSE ~can

(* The Red Cannon on (7,1) of the opening with two pieces set on its       *)
(* column: it may not capture the Cannon on (2,1) behind two screens nor   *)
(* the Soldier on (6,1) next to it; it captures on (4,1) over that         *)
(* Soldier when an enemy stands there, and slides along its empty row.     *)
C23_Witness ==
    /\ lastChange = "setPiece"
    /\ board[7][1] = Piece("C", "red")
    /\ board[6][1] = Piece("S", "black")
    /\ board[4][1] # Empty
    /\ board[2][1] = Piece("C", "black")
    /\ ~canBasicMove(board, board[7][1], 7, 1, 2, 1)
    /\ ~canBasicMove(board, board[7][1], 7, 1, 6, 1)
    /\ canBasicMove(board, board[7][1], 7, 1, 4, 1)
           <=> board[4][1].side = "black"
    /\ canBasicMove(board, board[7][1], 7, 1, 7, 6)

(* C24: for a Soldier, canBasicMove is true only for a step of one cell    *)
(* forward (row - 1 for Red, row + 1 for Black) or, when the origin is     *)
(* across the river (row <= 4 for Red, row >= 5 for Black), one cell       *)
(* sideways; a backward step is false everywhere and a sideways step is    *)
(* false before the river is crossed.                                      *)
C24_SoldierMoves ==
    \A from \in Cells : \A to \in Destinations :
        LET piece == board[from[1]][from[2]]
            can == canBasicMove(board, piece, from[1], from[2], to[1], to[2])
            forward == IF piece.side = "red" THEN from[1] - 1 ELSE from[1] + 1
            backward == IF piece.side = "red" THEN from[1] + 1 ELSE from[1] - 1
            across == IF piece.side = "red" THEN from[1] <= 4 ELSE from[1] >= 5
            sideways == to[1] = from[1] /\ (to[2] = from[2] - 1 \/ to[2] = from[2] + 1)
        IN  (piece # Empty /\ piece.type = "S") =>
                /\ can => \/ to = <<forward, from[2]>>
                          \/ across /\ sideways
                /\ to[1] = backward => ~can
                /\ (sideways /\ ~across) => ~can

(* A Red Soldier across the river on (4,1) and one before it on (5,2),     *)
(* set on the opening: the first steps sideways and forward, not back;     *)
(* the second steps forward only.                                          *)
C24_Witness ==
    /\ lastChange = "setPiece"
    /\ board[4][1] = Piece("S", "red")
    /\ board[5][2] = Piece("S", "red")
    /\ board[3][0] = Piece("S", "black")
    /\ canBasicMove(board, board[4][1], 4, 1, 4, 0)
    /\ canBasicMove(board, board[4][1], 4, 1, 4, 2)
    /\ canBasicMove(board, board[4][1], 4, 1, 3, 1)
    /\ ~canBasicMove(board, board[4][1], 4, 1, 5, 1)
    /\ canBasicMove(board, board[5][2], 5, 2, 4, 2)
    /\ ~canBasicMove(board, board[5][2], 5, 2, 5, 1)
    /\ ~canBasicMove(board, board[5][2], 5, 2, 5, 3)

(* The leg of a Horse step: the square next to the origin along the axis   *)
(* of the two-cell part of the step.                                       *)
legCell(from, to) ==
    IF to[1] - from[1] = 2 THEN <<from[1] + 1, from[2]>>
    ELSE IF to[1] - from[1] = -2 THEN <<from[1] - 1, from[2]>>
    ELSE IF to[2] - from[2] = 2 THEN <<from[1], from[2] + 1>>
    ELSE <<from[1], from[2] - 1>>

(* C25: for a Horse, canBasicMove is true exactly when the displacement    *)
(* is two cells along one axis and one along the other, the destination    *)
(* is on the board and holds no piece of the Horse's side, and the leg     *)
(* cell is empty.                                                          *)
C25_HorseMoves ==
    \A from \in Cells : \A to \in Destinations :
        LET piece == board[from[1]][from[2]]
            can == canBasicMove(board, piece, from[1], from[2], to[1], to[2])
            rowDist == IF to[1] > from[1] THEN to[1] - from[1] ELSE from[1] - to[1]
            colDist == IF to[2] > from[2] THEN to[2] - from[2] ELSE from[2] - to[2]
            leg == legCell(from, to)
        IN  (piece # Empty /\ piece.type = "H") =>
                (can <=> /\ <<rowDist, colDist>> \in {<<2, 1>>, <<1, 2>>}
                         /\ to \in Cells
                         /\ \/ board[to[1]][to[2]] = Empty
                            \/ board[to[1]][to[2]].side # piece.side
                         /\ board[leg[1]][leg[2]] = Empty)

(* A Red Horse set on (4,1) of the opening with a piece on (5,1): the leg  *)
(* towards row 6 is blocked, so it reaches neither (6,0) nor its own       *)
(* Soldier's (6,2); the legs towards row 2 and column 3 are free; a        *)
(* square beyond the left edge is refused.                                 *)
C25_Witness ==
    /\ lastChange = "setPiece"
    /\ board[4][1] = Piece("H", "red")
    /\ board[5][1] # Empty
    /\ board[6][2] = Piece("S", "red")
    /\ board[3][1] = Empty
    /\ board[4][2] = Empty
    /\ ~canBasicMove(board, board[4][1], 4, 1, 6, 0)
    /\ ~canBasicMove(board, board[4][1], 4, 1, 6, 2)
    /\ canBasicMove(board, board[4][1], 4, 1, 2, 0)
    /\ canBasicMove(board, board[4][1], 4, 1, 2, 2)
    /\ canBasicMove(board, board[4][1], 4, 1, 3, 3)
    /\ canBasicMove(board, board[4][1], 4, 1, 5, 3)
    /\ ~canBasicMove(board, board[4][1], 4, 1, 3, -1)

(* C26: isLegalMove, getLegalMovesForPiece, generateLegalMoves,            *)
(* isCheckmate, isStalemate, getStatus and getLegalMovesOfSelection leave  *)
(* the board they are given, and the whole engine, as they were: the move  *)
(* is simulated on a clone, and a change to a clone never shows in the     *)
(* original.                                                               *)
C26_QueriesChangeNothing ==
    /\ \A from \in ClickCells : \A to \in ClickCells :
           /\ simulateMove(board, from[1], from[2], to[1], to[2]).objects[1] = board
           /\ \A side \in {"red", "black"} :
                  boardLeftByIsLegalMove(board, from[1], from[2], to[1], to[2], side)
                      = board
    /\ \A from \in ClickCells :
           boardLeftByGetLegalMovesForPiece(board, from[1], from[2]) = board
    /\ boardLeftByGenerateLegalMoves(board, otherSide(sideToMove)) = board
    /\ boardLeftByIsCheckmate(board, sideToMove) = board
    /\ boardLeftByIsStalemate(board, sideToMove) = board
    /\ engineLeftByGetLegalMovesOfSelection(Engine) = Engine
    /\ engineLeftByGetStatus(Engine) = Engine

(* After two moves, a piece selected that has a legal move: the queries    *)
(* have simulated that move, on a Board that differs from the live one     *)
(* afterwards.                                                             *)
C26_Witness ==
    /\ Len(history) = 2
    /\ selected # NoPos
    /\ getLegalMovesOfSelection(Engine) # << >>
    /\ LET to == getLegalMovesOfSelection(Engine)[1]
           sim == simulateMove(board, selected[1], selected[2], to[1], to[2])
       IN  /\ sim.objects[sim.nb] # board
           /\ sim.objects[1] = board

(* Row-major order of squares: ascending row, then ascending column.       *)
before(a, b) ==
    a[1] < b[1] \/ (a[1] = b[1] /\ a[2] < b[2])

(* C27: getLegalMovesForPiece returns, without duplicates and in           *)
(* ascending row then ascending column order, exactly the destinations     *)
(* for which isLegalMove is true; generateLegalMoves returns exactly those *)
(* pairs for every piece of the side, origins in row-major order and the   *)
(* destinations of one origin in row-major order.                          *)
C27_LegalMoveLists ==
    /\ \A from \in ClickCells :
           LET moves == getLegalMovesForPiece(board, from[1], from[2])
               piece == getPiece(board, from[1], from[2])
           IN  /\ \A i \in 1 .. Len(moves) : \A j \in 1 .. Len(moves) :
                      i < j => before(moves[i], moves[j])
               /\ {moves[i] : i \in 1 .. Len(moves)} =
                      IF piece = Empty THEN {}
                      ELSE {to \in Cells :
                               isLegalMove(board, from[1], from[2], to[1], to[2],
                                           piece.side)}
    /\ LET all == generateLegalMoves(board, sideToMove)
       IN  /\ \A i \in 1 .. Len(all) : \A j \in 1 .. Len(all) :
                  i < j => \/ before(all[i].from, all[j].from)
                           \/ /\ all[i].from = all[j].from
                              /\ before(all[i].to, all[j].to)
           /\ {<<all[i].from, all[i].to>> : i \in 1 .. Len(all)} =
                  {ft \in Cells \X Cells :
                      /\ board[ft[1][1]][ft[1][2]] # Empty
                      /\ board[ft[1][1]][ft[1][2]].side = sideToMove
                      /\ isLegalMove(board, ft[1][1], ft[1][2], ft[2][1], ft[2][2],
                                     sideToMove)}

(* A position where the side to move has several pieces with several       *)
(* legal moves each, among them a piece with destinations in more than     *)
(* one row and more than one column.                                       *)
C27_Witness ==
    /\ lastChange = "move"
    /\ Len(generateLegalMoves(board, sideToMove)) > 4
    /\ \E from \in ClickCells :
           LET moves == getLegalMovesForPiece(board, from[1], from[2])
           IN  /\ Len(moves) > 2
               /\ \E i \in 1 .. Len(moves) : \E j \in 1 .. Len(moves) :
                      moves[i][1] # moves[j][1]
               /\ \E i \in 1 .. Len(moves) : \E j \in 1 .. Len(moves) :
                      moves[i][2] # moves[j][2]
    /\ \E i \in 1 .. Len(generateLegalMoves(board, sideToMove)) :
           generateLegalMoves(board, sideToMove)[i].from #
               generateLegalMoves(board, sideToMove)[1].from

(* The coordinates just beyond the four edges of the board.                *)
OutOfBounds ==
    Destinations \ Cells

(* C28: with an out-of-bounds coordinate, getPiece returns empty, setPiece *)
(* changes no cell, and movePiece (origin or destination out of bounds)    *)
(* changes no cell and returns an empty `captured`.                        *)
C28_OutOfBoundsIsInert ==
    \A off \in OutOfBounds :
        /\ getPiece(board, off[1], off[2]) = Empty
        /\ \A piece \in PlacePieces :
               setPiece(board, off[1], off[2], piece) = board
        /\ \A rc \in MoveCells \cup {off} :
               /\ movePiece(board, off[1], off[2], rc[1], rc[2]) =
                      [board |-> board, captured |-> Empty]
               /\ movePiece(board, rc[1], rc[2], off[1], off[2]) =
                      [board |-> board, captured |-> Empty]

(* The opening layout after a setPiece and a movePiece that changed        *)
(* nothing: the Red Cannon on (7,1) stays when moved beyond the right      *)
(* edge, and nothing is read or set beyond the top edge.                   *)
C28_Witness ==
    /\ lastChange = "movePiece"
    /\ moveCount = 2
    /\ board = setupInitial
    /\ movePiece(board, 7, 1, 4, cols) = [board |-> board, captured |-> Empty]
    /\ movePiece(board, -1, 1, 7, 1).board[7][1] = Piece("C", "red")
    /\ setPiece(board, -1, 1, Piece("C", "red")) = board
    /\ getPiece(board, -1, 1) = Empty

(* C29 as stated: in every state reached from newGame() by selectSquare,   *)
(* undo and redo, the live board equals the `after` of the last history    *)
(* entry when history is non-empty and the opening layout when it is       *)
(* empty.                                                                  *)
C29_BoardIsLastSnapshot ==
    IF history # << >>
    THEN board = history[Len(history)].after
    ELSE board = setupInitial

C31_GameOverIsFrozen ==
    /\ [](gameOver =>
            /\ redoStack = << >>
            /\ selected = NoPos
            /\ redo(Engine) = [engine |-> Engine, ret |-> FALSE]
            /\ \A rc \in ClickCells :
                   clickResult(rc) = [engine |-> Engine, ret |-> FALSE])
    /\ [][(gameOver /\ engineVars' # engineVars) =>
             lastChange' \in {"undo", "newGame", "applyToEngine"}]_vars

(* A stalemated game: redo() and a click on the stalemated General are     *)
(* refused, undo() is not.                                                 *)
C31_Witness ==
    /\ gameOver
    /\ gameOverReason = stalemateReason
    /\ history # << >>
    /\ ~redo(Engine).ret
    /\ \E rc \in ClickCells : ownPieceAt(rc) /\ ~clickResult(rc).ret
    /\ undo(Engine).ret
    /\ ~undo(Engine).engine.gameOver

(* C32: in every engine state of a game, the side that is not to move is  *)
(* not in check: no player can capture the opposing General on their turn. *)
C32_NonMoverNotInCheck ==
    ~isInCheck(board, otherSide(sideToMove))

(* After a move or a redo Black, to move, is in check and has an answer,   *)
(* while Red, who moved, is not in check.                                  *)
C32_Witness ==
    /\ lastChange \in {"move", "redo"}
    /\ history # << >>
    /\ sideToMove = "black"
    /\ isInCheck(board, "black")
    /\ ~isInCheck(board, "red")
    /\ ~gameOver

(* C33: in every engine state of a game, isFacingGeneral(board) is false:  *)
(* the two Generals are never on one column with no piece strictly         *)
(* between them.                                                           *)
C33_GeneralsNeverFace ==
    /\ ~isFacingGeneral(board)
    /\ ~generalsFace(board)

(* The Red General is selected and could step, by its geometry, onto the   *)
(* open column of the Black General; the step is no legal move.            *)
C33_Witness ==
    /\ lastChange \in {"select", "reselect"}
    /\ sideToMove = "red"
    /\ selected # NoPos
    /\ board[selected[1]][selected[2]] = Piece("K", "red")
    /\ \E to \in ClickCells :
           /\ canBasicMove(board, Piece("K", "red"), selected[1], selected[2],
                           to[1], to[2])
           /\ generalsFace(boardAfter(board, selected, to))
           /\ ~isInCheck(boardAfter(board, selected, to), "red")
           /\ ~isLegalMove(board, selected[1], selected[2], to[1], to[2], "red")
           /\ ~clickResult(to).ret

(* C34: in every reachable engine state, after undo, redo, newGame and a   *)
(* successful load included, a selected cell holds a piece of the side to  *)
(* move, and getLegalMovesOfSelection() lists exactly the squares on       *)
(* which a click commits a move.                                           *)
C34_SelectionIsOwnPiece ==
    selected # NoPos =>
        /\ inBounds(selected[1], selected[2])
        /\ board[selected[1]][selected[2]] # Empty
        /\ board[selected[1]][selected[2]].side = sideToMove
        /\ LET listed == getLegalMovesOfSelection(Engine)
           IN  \A rc \in Cells \cup ClickCells :
                   (\E i \in 1 .. Len(listed) : listed[i] = rc) <=> commits(rc)

(* A piece is selected after an undo and reselection while a move waits    *)
(* on the redo stack; it has legal moves, and a click on each of them      *)
(* commits.                                                                *)
C34_Witness ==
    /\ selected # NoPos
    /\ redoStack # << >>
    /\ lastChange \in {"select", "reselect"}
    /\ getLegalMovesOfSelection(Engine) # << >>
    /\ commits(getLegalMovesOfSelection(Engine)[1])
    /\ redo(Engine).ret
    /\ redo(Engine).engine.selected = NoPos

(* Where a piece may stand: a General or an Advisor in its side's palace,  *)
(* an Elephant on its side of the river, any other piece anywhere.         *)
inOwnZone(piece, rc) ==
    CASE piece.type \in {"K", "A"} ->
            /\ rc[2] \in 3 .. 5
            /\ rc[1] \in (IF piece.side = "red" THEN 7 .. 9 ELSE 0 .. 2)
      [] piece.type = "E" ->
            rc[1] \in (IF piece.side = "red" THEN 5 .. 9 ELSE 0 .. 4)
      [] OTHER -> TRUE

(* The live board with an Elephant of `side` set on a square of its river  *)
(* bank.                                                                   *)
elephantOnBank(side, col) ==
    setPiece(board, IF side = "red" THEN 5 ELSE 4, col, Piece("E", side))

(* C35: in every engine state of a game each General and each Advisor      *)
(* stands inside its own side's palace and each Elephant on its own side   *)
(* of the river; no step that canBasicMove allows them leads out, for the  *)
(* pieces on the board and for an Elephant on its river bank.              *)
C35_PiecesKeepTheirZone ==
    /\ \A rc \in Cells : inOwnZone(board[rc[1]][rc[2]], rc)
    /\ \A from \in Cells : \A to \in Cells :
           LET piece == board[from[1]][from[2]]
           IN  (/\ piece.type \in {"K", "A", "E"}
                /\ canBasicMove(board, piece, from[1], from[2], to[1], to[2]))
                   => inOwnZone(piece, to)
    /\ \A side \in {"red", "black"} : \A col \in {2, 6} : \A to \in Cells :
           LET row == IF side = "red" THEN 5 ELSE 4
           IN  canBasicMove(elephantOnBank(side, col), Piece("E", side),
                            row, col, to[1], to[2])
                   => inOwnZone(Piece("E", side), to)

(* A General has just stepped to the edge of its palace: the step out of   *)
(* the palace is refused, the step back is not; and an Elephant on the     *)
(* bank could step back from the river but not across.                     *)
C35_Witness ==
    /\ lastChange = "move"
    /\ \E rc \in Cells :
           /\ board[rc[1]][rc[2]].type = "K"
           /\ history[Len(history)].before[rc[1]][rc[2]] = Empty
           /\ rc[2] \in {3, 5}
           /\ \E to \in Cells :
                  /\ to[1] = rc[1]
                  /\ to[2] \in {2, 6}
                  /\ board[to[1]][to[2]] = Empty
                  /\ ~canBasicMove(board, board[rc[1]][rc[2]], rc[1], rc[2],
                                   to[1], to[2])
           /\ canBasicMove(board, board[rc[1]][rc[2]], rc[1], rc[2], rc[1], 4)
    /\ canBasicMove(elephantOnBank("red", 2), Piece("E", "red"), 5, 2, 7, 0)
    /\ ~canBasicMove(elephantOnBank("red", 2), Piece("E", "red"), 5, 2, 3, 0)

(* The in-bounds squares movePiece is asked about.                         *)
InBoundsMoveCells ==
    MoveCells \cap Cells

(* movePiece(from, to) returns what `to` held and changes no square other  *)
(* than `from` and `to`.                                                   *)
capturesAndKeepsTheRest(from, to) ==
    LET r == movePiece(board, from[1], from[2], to[1], to[2])
    IN  /\ r.captured = board[to[1]][to[2]]
        /\ \A rc \in Cells \ {from, to} :
               r.board[rc[1]][rc[2]] = board[rc[1]][rc[2]]

(* C36 as stated: for all in-bounds origins and destinations, origin =     *)
(* destination and an empty origin included, after movePiece the           *)
(* destination holds what the origin held, `captured` is what the          *)
(* destination held and no other square has changed.                       *)
C36_MovePieceRelocates ==
    \A from \in InBoundsMoveCells : \A to \in InBoundsMoveCells :
        /\ movePiece(board, from[1], from[2], to[1], to[2]).board[to[1]][to[2]]
               = board[from[1]][from[2]]
        /\ capturesAndKeepsTheRest(from, to)

(* C36, amended: the same for an origin other than the destination, the    *)
(* origin being empty afterwards; with origin = destination the square is  *)
(* empty afterwards and `captured` is what it held.                        *)
C36_MovePieceRelocatesElsewhere ==
    \A from \in InBoundsMoveCells : \A to \in InBoundsMoveCells :
        LET r == movePiece(board, from[1], from[2], to[1], to[2])
        IN  /\ capturesAndKeepsTheRest(from, to)
            /\ r.board[from[1]][from[2]] = Empty
            /\ from # to => r.board[to[1]][to[2]] = board[from[1]][from[2]]
            /\ from = to => r.captured = board[from[1]][from[2]]

(* The Red Cannon has been moved from (7,1) onto the Black Cannon on       *)
(* (2,1) of the opening; moved onto its own square it would vanish, and    *)
(* an empty origin would empty a destination.                              *)
C36_Witness ==
    /\ lastChange = "movePiece"
    /\ moveCount = 1
    /\ board[7][1] = Empty
    /\ board[2][1] = Piece("C", "red")
    /\ board = movePiece(setupInitial, 7, 1, 2, 1).board
    /\ movePiece(setupInitial, 7, 1, 2, 1).captured = Piece("C", "black")
    /\ movePiece(board, 2, 1, 2, 1).board[2][1] = Empty
    /\ movePiece(board, 2, 1, 2, 1).captured = Piece("C", "red")
    /\ movePiece(board, 7, 1, 2, 1).board[2][1] = Empty

(* C37: for every interleaving of the page's events (board click, new     *)
(* game, undo, redo, load from local storage, a file import completing,    *)
(* window resize) the legal-move list renderNow passes to the renderer     *)
(* equals getLegalMovesOfSelection() on the engine as it is at that        *)
(* render, and the cache, keyed by selection and side to move, is never    *)
(* stale.                                                                  *)
C37_CacheNeverStale ==
    /\ rendered = getLegalMovesOfSelection(Engine)
    /\ renderNow(Engine, legalCache).legal = getLegalMovesOfSelection(Engine)
    /\ (legalCache.isArray /\ legalCache.key = cacheKey(Engine)) =>
           legalCache.moves = getLegalMovesOfSelection(Engine)

(* In the middle of a game, a file import under way, a piece with legal    *)
(* moves is selected: the cache holds its key and its moves, and a resize  *)
(* now renders from the cache.                                             *)
C37_Witness ==
    /\ pendingImports > 0
    /\ history # << >>
    /\ selected # NoPos
    /\ rendered # << >>
    /\ legalCache.isArray
    /\ legalCache.key = cacheKey(Engine)
    /\ renderNow(Engine, legalCache).legalCache = legalCache
    /\ renderNow(Engine, legalCache).legal = rendered

(* The occupied cells strictly between two cells of one row or column.    *)
occupiedBetween(b, from, to) ==
    {rc \in Cells :
        /\ b[rc[1]][rc[2]] # Empty
        /\ \/ /\ from[1] = to[1] /\ rc[1] = from[1]
              /\ \/ from[2] < rc[2] /\ rc[2] < to[2]
                 \/ to[2] < rc[2] /\ rc[2] < from[2]
           \/ /\ from[2] = to[2] /\ rc[2] = from[2]
              /\ \/ from[1] < rc[1] /\ rc[1] < to[1]
                 \/ to[1] < rc[1] /\ rc[1] < from[1]}

(* C38: Utils.countPiecesBetween terminates for every pair of in-bounds    *)
(* cells, identical cells included, and returns the number of occupied     *)
(* cells strictly between them when they share a row or a column and -1    *)
(* otherwise.                                                              *)
C38_CountTerminates ==
    /\ [](scan.pc = "done" =>
             scan.result =
                 IF scan.fromRow = scan.toRow \/ scan.fromCol = scan.toCol
                 THEN Cardinality(occupiedBetween(board,
                          <<scan.fromRow, scan.fromCol>>, <<scan.toRow, scan.toCol>>))
                 ELSE -1)
    /\ (scan.pc \notin {"idle", "done"}) ~> (scan.pc = "done")

(* C38, the calls on two different cells: those return, with the number of *)
(* occupied cells strictly between or -1.                                  *)
C38_DistinctCellsTerminate ==
    /\ [](scan.pc = "done" =>
             scan.result =
                 IF scan.fromRow = scan.toRow \/ scan.fromCol = scan.toCol
                 THEN Cardinality(occupiedBetween(board,
                          <<scan.fromRow, scan.fromCol>>, <<scan.toRow, scan.toCol>>))
                 ELSE -1)
    /\ (/\ scan.pc \notin {"idle", "done"}
        /\ <<scan.fromRow, scan.fromCol>> # <<scan.toRow, scan.toCol>>)
           ~> (scan.pc = "done")

(* The call on one cell twice has left the board: its index is at the      *)
(* limit, the loop's test still true.                                      *)
C38_RunawayIndex ==
    /\ scan.pc = "rowTest"
    /\ <<scan.fromRow, scan.fromCol>> = <<scan.toRow, scan.toCol>>
    /\ scan.i = -ScanLimit
    /\ scan.cnt = 0

====
